---- MODULE Spec2Model ----
(***************************************************************************)
(* Model of the gluten-free scanner's OCR pipeline (WestEdgeFamily/GFA):   *)
(*   - analyzeIngredientsForSafety      (src/safety-algorithm.js)          *)
(*   - combineOcrResults                (src/enhanced-ocr.js)              *)
(*   - enhanceAndRecognizeText          (src/enhanced-ocr.js,              *)
(*                                       src/static/js/server-ocr.js)      *)
(*   - performFoodLabelOCR              (src/enhanced-ocr.js)              *)
(*   - postprocessText, enhanceIngredientText, cleanFoodLabelText          *)
(*                                      (src/enhanced-ocr.js,              *)
(*                                       src/static/js/server-ocr.js)      *)
(*   - correctImageOrientation and the downscaling of preprocessImage      *)
(*                                      (src/enhanced-ocr.js,              *)
(*                                       src/unnamed/part_001)             *)
(*   - performServerOCR                 (src/static/js/server-ocr.js)      *)
(*   - the filter banks of preprocessImage and preprocessFoodLabel, the    *)
(*     wait of getImageData for the decoded image, the two passes of       *)
(*     preprocessImage over the pixels  (src/enhanced-ocr.js,              *)
(*                                       src/static/js/server-ocr.js)      *)
(*   - the density analysis of detectIngredientsSection                    *)
(*                                      (src/enhanced-ocr.js)              *)
(* Each of them has its own specification; the variables of the others     *)
(* stay idle.                                                              *)
(* JavaScript strings are TLA+ strings; += is \o.  Confidences of flagged  *)
(* ingredients are kept in tenths (0.5 is 5), OCR confidences in 0..100.   *)
(***************************************************************************)
EXTENDS Integers, Sequences, FiniteSets, TLC

VARIABLES
    \* ---- analyzeIngredientsForSafety ----
    spc,            \* "idle" | "ready" (a record is loaded) | "analyzed"
    data,           \* the record the function mutates in place and returns
    upstream,       \* the record as it was handed to the last call
    calls,          \* number of calls made on the record
    \* ---- combineOcrResults (called on its own) ----
    fpc,            \* "idle" | "collect" | "done"
    fuseInput,      \* the results array handed to combineOcrResults
    fused,          \* the returned string ("" when the call threw)
    fuseImpl,       \* whose combineOcrResults ran: "enhanced" | "server"
    fuseThrew,      \* the call ended in a TypeError
    \* ---- one scan of a multi-pass pipeline ----
    pc,             \* position of the async function
    variant,        \* which pipeline function runs
    passLog,        \* what the engine did in each pass so far, in pass order
    results,        \* the local array `results`
    bestText,       \* local `bestText`
    bestConfidence, \* local `bestConfidence`
    combinedText,   \* local `combinedText`, the text handed to text normalisation
    retText,        \* the `text` field of the returned object
    retConfidence,  \* the `confidence` field of the returned object
    outcome,        \* "none" | "returned" | "thrown"
    \* ---- a text normaliser called on its own, then on its own output ----
    npc,            \* "idle" | "compose" | "called" | "again"
    ninput,         \* the value handed to the first call
    ntokens,        \* pieces the input text was put together from
    nfun,           \* the function called
    nfirst,         \* what the first call gave back
    nsecond,        \* what the call on the first call's value gave back
    \* ---- one image on its way to the recognition passes ----
    ipc,            \* "idle" | "start" | "oriented" | "preprocessed" | "done" | "thrown"
    imageElement,   \* the image handed in
    iimpl,          \* "enhanced" (enhanced-ocr.js) | "simplified" (part_001)
    detection,      \* what the steps of correctImageOrientation met
    orientedImage,  \* what correctImageOrientation returned
    scaled,         \* the sizes the downscaling code computed
    \* ---- performServerOCR ----
    xpc,            \* "idle" | "start" | "fetching" | "parsing" | "done"
    ui,             \* the three progress elements of the page
    uiBefore,       \* the progress elements as they were before the scan
    reply,          \* how the request to /api/ocr ended
    xout,           \* what performServerOCR gave its caller
    \* ---- one call of a filter bank ----
    kpc,            \* "idle" | "start" | "done"
    kfun,           \* "preprocessImage" | "preprocessFoodLabel"
    ksize,          \* width and height getImageData returned
    kfault,         \* where the run failed, if it did
    kproduced,      \* the variants finished before the run ended
    kout,           \* what the call gave its caller
    \* ---- one wait of getImageData for the decoded image ----
    dpc,            \* "idle" | "start" | "waiting" | "resumed" | "done"
    dimpl,          \* "enhanced" (enhanced-ocr.js) | "server" (server-ocr.js)
    dsource,        \* the source handed to getImageData
    dhandlers,      \* the event handlers installed on the image
    devent,         \* the event the browser fired: "none" | "load" | "error"
    dresult,        \* what getImageData came to
    \* ---- the two passes of preprocessImage over a small buffer ----
    bpc,            \* "idle" | "adaptive" | "done"
    bsize,          \* the width and height of the buffers
    pixels,         \* imageData.data, rewritten by the adaptive pass
    origData,       \* the clone taken before the passes
    bpos,           \* the pixel the adaptive pass is at, from 1
    dataCopy,       \* the contrast variant
    \* ---- the density analysis of detectIngredientsSection ----
    gpc,            \* "idle" | "counted" | "done"
    gheight,        \* the height of the image and of the canvas
    rowDensity,     \* the dark pixels of each row from startY on
    bbox            \* the region returned, with startRow and endRow

safetyVars == <<spc, data, upstream, calls>>
fusionVars == <<fpc, fuseInput, fused, fuseImpl, fuseThrew>>
pipeVars == <<pc, variant, passLog, results, bestText, bestConfidence, combinedText,
              retText, retConfidence, outcome>>
normVars == <<npc, ninput, ntokens, nfun, nfirst, nsecond>>
imageVars == <<ipc, imageElement, iimpl, detection, orientedImage, scaled>>
serverVars == <<xpc, ui, uiBefore, reply, xout>>
filterVars == <<kpc, kfun, ksize, kfault, kproduced, kout>>
decodeVars == <<dpc, dimpl, dsource, dhandlers, devent, dresult>>
thresholdVars == <<bpc, bsize, pixels, origData, bpos, dataCopy>>
regionVars == <<gpc, gheight, rowDensity, bbox>>
notSafety == <<fusionVars, pipeVars, normVars, imageVars, serverVars, filterVars, decodeVars, thresholdVars, regionVars>>
notFusion == <<safetyVars, pipeVars, normVars, imageVars, serverVars, filterVars, decodeVars, thresholdVars, regionVars>>
notPipeline == <<safetyVars, fusionVars, normVars, imageVars, serverVars, filterVars, decodeVars, thresholdVars, regionVars>>
notNormalizer == <<safetyVars, fusionVars, pipeVars, imageVars, serverVars, filterVars, decodeVars, thresholdVars, regionVars>>
notImage == <<safetyVars, fusionVars, pipeVars, normVars, serverVars, filterVars, decodeVars, thresholdVars, regionVars>>
notServer == <<safetyVars, fusionVars, pipeVars, normVars, imageVars, filterVars, decodeVars, thresholdVars, regionVars>>
notFilter == <<safetyVars, fusionVars, pipeVars, normVars, imageVars, serverVars, decodeVars, thresholdVars, regionVars>>
notDecode == <<safetyVars, fusionVars, pipeVars, normVars, imageVars, serverVars, filterVars, thresholdVars, regionVars>>
notThreshold == <<safetyVars, fusionVars, pipeVars, normVars, imageVars, serverVars, filterVars, decodeVars, regionVars>>
notRegion == <<safetyVars, fusionVars, pipeVars, normVars, imageVars, serverVars, filterVars, decodeVars, thresholdVars>>
vars == <<spc, data, upstream, calls, fpc, fuseInput, fused, fuseImpl, fuseThrew,
          pc, variant, passLog, results, bestText, bestConfidence, combinedText,
          retText, retConfidence, outcome, npc, ninput, ntokens, nfun, nfirst, nsecond,
          ipc, imageElement, iimpl, detection, orientedImage, scaled,
          xpc, ui, uiBefore, reply, xout,
          kpc, kfun, ksize, kfault, kproduced, kout,
          dpc, dimpl, dsource, dhandlers, devent, dresult,
          bpc, bsize, pixels, origData, bpos, dataCopy,
          gpc, gheight, rowDensity, bbox>>

(***************************************************************************)
(* Bounds of the model                                                     *)
(***************************************************************************)
MaxFlagged == 2     \* longest flagged_ingredients list
MaxCalls == 2       \* calls of analyzeIngredientsForSafety on one record
MaxTotalLen == 6    \* characters, in all, of the texts handed to combineOcrResults on its own
MaxResults == 2     \* longest results array handed to combineOcrResults on its own
MaxTokens == 3      \* pieces a text handed to a normaliser on its own is put together from

(***************************************************************************)
(* String helpers (JavaScript String methods)                              *)
(***************************************************************************)
\* s.startsWith(p)
StartsWith(s, p) == Len(s) >= Len(p) /\ SubSeq(s, 1, Len(p)) = p

\* s.endsWith(p)
EndsWith(s, p) == Len(s) >= Len(p) /\ SubSeq(s, Len(s) - Len(p) + 1, Len(s)) = p

\* s.includes(p)
Includes(s, p) ==
    \E i \in 0..(Len(s) - Len(p)) : SubSeq(s, i + 1, i + Len(p)) = p

\* all sequences over S of length at most n
SeqUpTo(S, n) == UNION {[1..k -> S] : k \in 0..n}

(***************************************************************************)
(* analyzeIngredientsForSafety                                             *)
(***************************************************************************)
UnsafeMessage == "Potentially unsafe: Contains suspicious ingredients."
CautionMessage == "Exercise caution: Some ingredients need verification."
CrossContaminationSuffix == " However, always check for cross-contamination risks."

\* `i.confidence > 0.5`, in tenths
UnsafeThreshold == 5

\* data.flagged_ingredients is an array or is absent (undefined / null)
NoList == [present |-> FALSE, items |-> <<>>]
List(items) == [present |-> TRUE, items |-> items]

IngredientNames == {"wheat starch", "oats"}
FlagConfidences == {3, 5, 6, 9}
FlaggedIngredient == [name : IngredientNames, confidence : FlagConfidences]

UpstreamMessages ==
    { "",
      "No gluten ingredients found.",
      "Contains gluten.",
      "No gluten ingredients found." \o CrossContaminationSuffix }

SafetyInputs ==
    [ is_gluten_free : BOOLEAN,
      message : UpstreamMessages,
      flagged_ingredients : {NoList} \cup {List(s) : s \in SeqUpTo(FlaggedIngredient, MaxFlagged)} ]

\* mutant: the length test is dropped, so an empty list counts as flagged
HasFlaggedNoLength(d) == d.flagged_ingredients.present

\* data.flagged_ingredients && data.flagged_ingredients.length > 0
HasFlagged(d) == d.flagged_ingredients.present /\ Len(d.flagged_ingredients.items) > 0

\* mutant: the bar is raised, 0.6 no longer counts as unsafe
SomeUnsafeHigherBar(d) ==
    \E k \in 1..Len(d.flagged_ingredients.items) :
        d.flagged_ingredients.items[k].confidence > UnsafeThreshold + 1

\* mutant: >= instead of >, exactly 0.5 counts as unsafe
SomeUnsafeInclusive(d) ==
    \E k \in 1..Len(d.flagged_ingredients.items) :
        d.flagged_ingredients.items[k].confidence >= UnsafeThreshold

\* data.flagged_ingredients.some(i => i.confidence > 0.5)
SomeUnsafe(d) ==
    \E k \in 1..Len(d.flagged_ingredients.items) :
        d.flagged_ingredients.items[k].confidence > UnsafeThreshold

\* lines 4-14: the override of verdict and message
OverrideVerdict(d) ==
    IF HasFlagged(d)
    THEN IF SomeUnsafe(d)
         THEN [d EXCEPT !.is_gluten_free = FALSE, !.message = UnsafeMessage]
         ELSE [d EXCEPT !.message = CautionMessage]
    ELSE d

\* mutant: the suffix is appended whatever the verdict
AppendSuffixAlways(d) == [d EXCEPT !.message = d.message \o CrossContaminationSuffix]

\* lines 16-19: the cross-contamination statement
AppendSuffix(d) ==
    IF d.is_gluten_free
    THEN [d EXCEPT !.message = d.message \o CrossContaminationSuffix]
    ELSE d

analyzeIngredientsForSafety(d) == AppendSuffix(OverrideVerdict(d))

NoData == [is_gluten_free |-> FALSE, message |-> "", flagged_ingredients |-> NoList]

SafetyIdle ==
    /\ spc = "idle"
    /\ data = NoData
    /\ upstream = NoData
    /\ calls = 0

InitSafety ==
    /\ spc = "ready"
    /\ data \in SafetyInputs
    /\ upstream = data
    /\ calls = 0

\* one call analyzeIngredientsForSafety(data); the record is mutated in place,
\* so a later call on the same record starts from the previous result
Analyze ==
    /\ spc \in {"ready", "analyzed"}
    /\ calls < MaxCalls
    /\ upstream' = data
    /\ data' = analyzeIngredientsForSafety(data)
    /\ calls' = calls + 1
    /\ spc' = "analyzed"
    /\ UNCHANGED notSafety

(***************************************************************************)
(* More String methods                                                     *)
(***************************************************************************)
UpperChars == "ABCDEFGHIJKLMNOPQRSTUVWXYZ"
LowerChars == "abcdefghijklmnopqrstuvwxyz"

\* one character of s.toLowerCase()
LowerOf ==
    [c \in {SubSeq(UpperChars, i, i) : i \in 1..Len(UpperChars)} |->
        LET i == CHOOSE j \in 1..Len(UpperChars) : SubSeq(UpperChars, j, j) = c
        IN  SubSeq(LowerChars, i, i)]

LowerChar(c) == IF c \in DOMAIN LowerOf THEN LowerOf[c] ELSE c

\* s.toLowerCase(), character by character (the two halves of s in turn)
RECURSIVE ToLowerCase(_)
ToLowerCase(s) ==
    IF Len(s) <= 1 THEN LowerChar(s)
    ELSE LET half == Len(s) \div 2
             left == SubSeq(s, 1, half)
             right == SubSeq(s, half + 1, Len(s))
         IN  ToLowerCase(left) \o ToLowerCase(right)

\* the characters \s matches among those the model's texts are made of
IsSpace(c) == c \in {" ", "\n", "\t"}

\* s.trim()
RECURSIVE TrimStart(_)
TrimStart(s) ==
    IF s # "" /\ IsSpace(SubSeq(s, 1, 1)) THEN TrimStart(Tail(s)) ELSE s

RECURSIVE TrimEnd(_)
TrimEnd(s) ==
    IF s # "" /\ IsSpace(SubSeq(s, Len(s), Len(s)))
    THEN TrimEnd(SubSeq(s, 1, Len(s) - 1))
    ELSE s

Trim(s) == LET t == TrimStart(s) IN TrimEnd(t)

\* s.split(/\s+/): the pieces between maximal runs of whitespace; a leading or
\* trailing run leaves an empty piece, and "" splits into [""]
RECURSIVE SplitScan(_, _, _, _)
SplitScan(s, acc, cur, inSpace) ==
    IF s = "" THEN Append(acc, cur)
    ELSE LET c == SubSeq(s, 1, 1) IN
         IF IsSpace(c)
         THEN IF inSpace
              THEN SplitScan(Tail(s), acc, cur, TRUE)
              ELSE SplitScan(Tail(s), Append(acc, cur), "", TRUE)
         ELSE SplitScan(Tail(s), acc, cur \o c, FALSE)

SplitWhitespace(s) == SplitScan(s, <<>>, "", FALSE)

\* the elements of a sequence
Range(q) == {q[i] : i \in 1..Len(q)}

(***************************************************************************)
(* combineOcrResults (src/enhanced-ocr.js 280-313)                         *)
(***************************************************************************)
\* words shorter than this are filtered out: `word.length > 2`
MinWordLength == 2

\* a result object is a record; one whose `text` is missing or undefined has
\* no text field.  `result.text` is truthy when it is a non-empty string.
HasText(result) == "text" \in DOMAIN result
TruthyText(result) == HasText(result) /\ result.text # ""

\* lines 282-290: the longest text, the first one among equally long texts;
\* `if (result.text && result.text.length > maxLength)`
RECURSIVE LongestText(_, _, _)
LongestText(rs, baseText, maxLength) ==
    IF rs = <<>> THEN baseText
    ELSE IF TruthyText(Head(rs)) /\ Len(Head(rs).text) > maxLength
         THEN LongestText(Tail(rs), Head(rs).text, Len(Head(rs).text))
         ELSE LongestText(Tail(rs), baseText, maxLength)

\* lines 297-300: .split(/\s+/).map(trim, toLowerCase).filter(length > 2)
WordsOf(text) ==
    LET pieces == SplitWhitespace(text)
        mapped == [i \in 1..Len(pieces) |-> ToLowerCase(Trim(pieces[i]))]
    IN  SelectSeq(mapped, LAMBDA w : Len(w) > MinWordLength)

\* words.forEach(word => allWords.add(word)): a Set keeps insertion order
RECURSIVE AddAll(_, _)
AddAll(allWords, words) ==
    IF words = <<>> THEN allWords
    ELSE AddAll(IF Head(words) \in Range(allWords)
                THEN allWords ELSE Append(allWords, Head(words)),
                Tail(words))

\* lines 293-303: allWords over every result, `if (!result.text) continue`
RECURSIVE AllWords(_, _)
AllWords(rs, allWords) ==
    IF rs = <<>> THEN allWords
    ELSE IF ~TruthyText(Head(rs))
         THEN AllWords(Tail(rs), allWords)
         ELSE AllWords(Tail(rs), AddAll(allWords, WordsOf(Head(rs).text)))

\* mutant: the base text is not lowercased before the substring test
RECURSIVE AppendMissingCaseSensitive(_, _)
AppendMissingCaseSensitive(baseText, words) ==
    IF words = <<>> THEN baseText
    ELSE IF ~Includes(baseText, ToLowerCase(Head(words)))
         THEN AppendMissingCaseSensitive(baseText \o " " \o Head(words), Tail(words))
         ELSE AppendMissingCaseSensitive(baseText, Tail(words))

\* mutant: every word is tested against the base text as it was before the
\* first word was appended
RECURSIVE AppendMissingFrom(_, _, _)
AppendMissingFrom(longest, baseText, words) ==
    IF words = <<>> THEN baseText
    ELSE IF ~Includes(ToLowerCase(longest), ToLowerCase(Head(words)))
         THEN AppendMissingFrom(longest, baseText \o " " \o Head(words), Tail(words))
         ELSE AppendMissingFrom(longest, baseText, Tail(words))
AppendMissingToLongest(baseText, words) == AppendMissingFrom(baseText, baseText, words)

\* lines 306-310: append the words the (growing) base text does not include
RECURSIVE AppendMissing(_, _)
AppendMissing(baseText, words) ==
    IF words = <<>> THEN baseText
    ELSE IF ~Includes(ToLowerCase(baseText), ToLowerCase(Head(words)))
         THEN AppendMissing(baseText \o " " \o Head(words), Tail(words))
         ELSE AppendMissing(baseText, Tail(words))

\* mutant: the base text is stored lowercased
combineOcrResultsLowercased(rs) ==
    AppendMissing(ToLowerCase(LongestText(rs, "", 0)), AllWords(rs, <<>>))

combineOcrResults(rs) ==
    AppendMissing(LongestText(rs, "", 0), AllWords(rs, <<>>))

(***************************************************************************)
(* combineOcrResults (src/static/js/server-ocr.js 298-329): the same loops *)
(* without the `result.text &&` and `if (!result.text) continue` guards    *)
(***************************************************************************)
\* lines 303-308: `if (result.text.length > maxLength)`
RECURSIVE LongestTextServer(_, _, _)
LongestTextServer(rs, baseText, maxLength) ==
    IF rs = <<>> THEN baseText
    ELSE IF Len(Head(rs).text) > maxLength
         THEN LongestTextServer(Tail(rs), Head(rs).text, Len(Head(rs).text))
         ELSE LongestTextServer(Tail(rs), baseText, maxLength)

\* lines 311-319
RECURSIVE AllWordsServer(_, _)
AllWordsServer(rs, allWords) ==
    IF rs = <<>> THEN allWords
    ELSE AllWordsServer(Tail(rs), AddAll(allWords, WordsOf(Head(rs).text)))

\* what a call gives back: a value, or an exception
Returned(v) == [threw |-> FALSE, value |-> v]
Threw(e) == [threw |-> TRUE, value |-> e]

\* `result.text.length` of a result without text reads a property of
\* undefined: a TypeError, raised by the first loop at the first such result
combineOcrResultsServer(rs) ==
    IF \E i \in 1..Len(rs) : ~HasText(rs[i])
    THEN Threw("TypeError")
    ELSE Returned(AppendMissing(LongestTextServer(rs, "", 0), AllWordsServer(rs, <<>>)))

\* ---- combineOcrResults called on its own, on any non-empty results array ----
FuseAlphabet == {"a", "B", " "}

\* the texts of exactly n characters
RECURSIVE TextsOfLength(_)
TextsOfLength(n) ==
    IF n = 0 THEN {""}
    ELSE {s \o c : s \in TextsOfLength(n - 1), c \in FuseAlphabet}

\* a result as combineOcrResults sees it; it reads the text only
FuseResult(t) == [text |-> t, confidence |-> 50]

\* a result whose text is missing (undefined)
FuseResultNoText == [confidence |-> 50]

\* Texts[n]: the texts of exactly n characters
Texts == [n \in 0..MaxTotalLen |-> TextsOfLength(n)]

\* characters of all the texts of rs together
RECURSIVE TotalLen(_)
TotalLen(rs) ==
    IF rs = <<>> THEN 0
    ELSE (IF HasText(Head(rs)) THEN Len(Head(rs).text) ELSE 0) + TotalLen(Tail(rs))

FusionIdle ==
    /\ fpc = "idle"
    /\ fuseInput = <<>>
    /\ fused = ""
    /\ fuseImpl = "enhanced"
    /\ fuseThrew = FALSE

InitFusion ==
    /\ fpc = "collect"
    /\ fuseInput = <<>>
    /\ fused = ""
    /\ fuseImpl \in {"enhanced", "server"}
    /\ fuseThrew = FALSE

\* the caller puts one more result into the array it will hand over
AddResult ==
    /\ fpc = "collect"
    /\ Len(fuseInput) < MaxResults
    /\ \E n \in 0..(MaxTotalLen - TotalLen(fuseInput)) : \E t \in Texts[n] :
        fuseInput' = Append(fuseInput, FuseResult(t))
    /\ UNCHANGED <<fpc, fused, fuseImpl, fuseThrew>>
    /\ UNCHANGED notFusion

\* ... or a result that carries no text
AddResultNoText ==
    /\ fpc = "collect"
    /\ Len(fuseInput) < MaxResults
    /\ fuseInput' = Append(fuseInput, FuseResultNoText)
    /\ UNCHANGED <<fpc, fused, fuseImpl, fuseThrew>>
    /\ UNCHANGED notFusion

\* combineOcrResults(results) on a non-empty array
Combine ==
    /\ fpc = "collect"
    /\ fuseImpl = "enhanced"
    /\ fuseInput # <<>>
    /\ fused' = combineOcrResults(fuseInput)
    /\ fpc' = "done"
    /\ UNCHANGED <<fuseInput, fuseImpl, fuseThrew>>
    /\ UNCHANGED notFusion

\* the combineOcrResults of server-ocr.js on a non-empty array
CombineServer ==
    /\ fpc = "collect"
    /\ fuseImpl = "server"
    /\ fuseInput # <<>>
    /\ LET r == combineOcrResultsServer(fuseInput)
       IN  /\ fuseThrew' = r.threw
           /\ fused' = IF r.threw THEN "" ELSE r.value
    /\ fpc' = "done"
    /\ UNCHANGED <<fuseInput, fuseImpl>>
    /\ UNCHANGED notFusion

\* ---- combineOcrResults called on results whose texts are made of words ----
MaxUnion == 3       \* longest results array made of phrases
Vocabulary == {"aB", "aBa", "BaBa"}

\* one word, or two with a space between them
Phrases == Vocabulary \cup {v \o " " \o w : v, w \in Vocabulary}

InitUnion ==
    /\ fpc = "collect"
    /\ fuseInput = <<>>
    /\ fused = ""
    /\ fuseImpl = "enhanced"
    /\ fuseThrew = FALSE

\* the caller puts one more result into the array it will hand over
AddPhrase ==
    /\ fpc = "collect"
    /\ Len(fuseInput) < MaxUnion
    /\ \E t \in Phrases : fuseInput' = Append(fuseInput, FuseResult(t))
    /\ UNCHANGED <<fpc, fused, fuseImpl, fuseThrew>>
    /\ UNCHANGED notFusion

(***************************************************************************)
(* Regular expressions of the text normalisers, each matched the way the   *)
(* JavaScript engine matches it: leftmost match, greedy or lazy quantifiers *)
(* as written, `g` replacing every non-overlapping match from left to      *)
(* right, `i` comparing letters without case.                              *)
(***************************************************************************)
DigitChars == "0123456789"
Letters == {SubSeq(UpperChars \o LowerChars, i, i) : i \in 1..(2 * Len(LowerChars))}
Digits == {SubSeq(DigitChars, i, i) : i \in 1..Len(DigitChars)}

IsLetter(c) == c \in Letters        \* [a-z] under the i flag
IsDigit(c) == c \in Digits          \* \d
IsWordChar(c) == c \in Letters \/ c \in Digits \/ c = "_"     \* \w

\* the character at position i (from 1), "" outside the string
CharAt(s, i) == IF i >= 1 /\ i <= Len(s) THEN SubSeq(s, i, i) ELSE ""

\* \b just before position i: exactly one of the two neighbours is a word character
WordBoundary(s, i) == IsWordChar(CharAt(s, i - 1)) # IsWordChar(CharAt(s, i))

\* the literal w sits at position i of s
StartsAt(s, i, w) ==
    i >= 1 /\ i + Len(w) - 1 <= Len(s) /\ SubSeq(s, i, i + Len(w) - 1) = w

\* the first position from i on that holds no whitespace (\s* consumed)
RECURSIVE SkipSpaces(_, _)
SkipSpaces(s, i) == IF IsSpace(CharAt(s, i)) THEN SkipSpaces(s, i + 1) ELSE i

\* [\s\:\.]
IsSeparator(c) == IsSpace(c) \/ c = ":" \/ c = "."

\* the first position from i on that holds no separator ([\s\:\.]+ consumed)
RECURSIVE SkipSeparators(_, _)
SkipSeparators(s, i) == IF IsSeparator(CharAt(s, i)) THEN SkipSeparators(s, i + 1) ELSE i

\* the literal w, given in lower case, sits at position i of s in any letter
\* case (the i flag)
StartsAtNoCase(s, i, w) ==
    /\ i >= 1 /\ i + Len(w) - 1 <= Len(s)
    /\ LowerChar(CharAt(s, i)) = SubSeq(w, 1, 1)
    /\ ToLowerCase(SubSeq(s, i, i + Len(w) - 1)) = w

\* s.replace(/\bpat\b/gi, rep) for a literal pat given in lower case; wbLeft
\* and wbRight tell whether the \b on that side is there;
\* out is what the scan has produced so far (its length is read at every
\* step, which keeps out an evaluated string)
RECURSIVE ReplaceFrom(_, _, _, _, _, _, _)
ReplaceFrom(s, i, pat, rep, wbLeft, wbRight, out) ==
    IF i > Len(s) \/ Len(out) < 0 THEN out
    ELSE IF /\ StartsAtNoCase(s, i, pat)
            /\ wbLeft => WordBoundary(s, i)
            /\ wbRight => WordBoundary(s, i + Len(pat))
         THEN ReplaceFrom(s, i + Len(pat), pat, rep, wbLeft, wbRight, out \o rep)
         ELSE ReplaceFrom(s, i + 1, pat, rep, wbLeft, wbRight, out \o CharAt(s, i))

\* a string without the literal is left as it is
ReplaceLiteral(s, pat, rep, wbLeft, wbRight) ==
    IF \A i \in 1..(Len(s) - Len(pat) + 1) : ~StartsAtNoCase(s, i, pat) THEN s
    ELSE ReplaceFrom(s, 1, pat, rep, wbLeft, wbRight, "")

ReplaceAll(s, pat, rep) == ReplaceLiteral(s, pat, rep, FALSE, FALSE)
ReplaceWord(s, pat, rep) == ReplaceLiteral(s, pat, rep, TRUE, TRUE)
ReplaceWordStart(s, pat, rep) == ReplaceLiteral(s, pat, rep, TRUE, FALSE)

\* s.replace(/\,\s*\,/g, ',') and s.replace(/\.\s*\./g, '.'), c the character
RECURSIVE CollapsePairFrom(_, _, _, _)
CollapsePairFrom(s, i, c, out) ==
    IF i > Len(s) \/ Len(out) < 0 THEN out
    ELSE IF CharAt(s, i) = c /\ CharAt(s, SkipSpaces(s, i + 1)) = c
         THEN CollapsePairFrom(s, SkipSpaces(s, i + 1) + 1, c, out \o c)
         ELSE CollapsePairFrom(s, i + 1, c, out \o CharAt(s, i))

CollapsePair(s, c) == CollapsePairFrom(s, 1, c, "")

\* the least element of a non-empty set of positions
Least(S) == CHOOSE i \in S : \A j \in S : i <= j

\* s with the positions from through upTo - 1 cut out
Cut(s, from, upTo) == SubSeq(s, 1, from - 1) \o SubSeq(s, upTo, Len(s))

(***************************************************************************)
(* postprocessText (src/enhanced-ocr.js 397-447)                           *)
(***************************************************************************)
\* s.replace(/\s+/g, ' ')
RECURSIVE CollapseSpacesFrom(_, _, _)
CollapseSpacesFrom(s, i, out) ==
    IF i > Len(s) \/ Len(out) < 0 THEN out
    ELSE IF IsSpace(CharAt(s, i))
         THEN CollapseSpacesFrom(s, SkipSpaces(s, i), out \o " ")
         ELSE CollapseSpacesFrom(s, i + 1, out \o CharAt(s, i))

CollapseSpaces(s) == CollapseSpacesFrom(s, 1, "")

\* membership of a character class: [a-z] under the i flag, \w, \d
InClass(class, c) ==
    CASE class = "letter" -> IsLetter(c)
      [] class = "word" -> IsWordChar(c)
      [] class = "digit" -> IsDigit(c)

\* s.replace(/(left)mid(right)/g, '$1' + mid + ins + '$2'), left and right
\* one character of a class each: ins goes in after mid
RECURSIVE InsertAfterFrom(_, _, _, _, _, _, _)
InsertAfterFrom(s, i, left, mid, right, ins, out) ==
    IF i > Len(s) \/ Len(out) < 0 THEN out
    ELSE IF /\ InClass(left, CharAt(s, i))
            /\ CharAt(s, i + 1) = mid
            /\ InClass(right, CharAt(s, i + 2))
         THEN InsertAfterFrom(s, i + 3, left, mid, right, ins,
                              out \o CharAt(s, i) \o mid \o ins \o CharAt(s, i + 2))
         ELSE InsertAfterFrom(s, i + 1, left, mid, right, ins, out \o CharAt(s, i))

InsertAfter(s, left, mid, right, ins) == InsertAfterFrom(s, 1, left, mid, right, ins, "")

\* s.replace(/a\s*b/g, rep) for characters a and b
RECURSIVE ReplacePairFrom(_, _, _, _, _, _)
ReplacePairFrom(s, i, a, b, rep, out) ==
    IF i > Len(s) \/ Len(out) < 0 THEN out
    ELSE IF CharAt(s, i) = a /\ CharAt(s, SkipSpaces(s, i + 1)) = b
         THEN ReplacePairFrom(s, SkipSpaces(s, i + 1) + 1, a, b, rep, out \o rep)
         ELSE ReplacePairFrom(s, i + 1, a, b, rep, out \o CharAt(s, i))

ReplacePair(s, a, b, rep) == ReplacePairFrom(s, 1, a, b, rep, "")

\* s.replace(/\s*c\s*/g, rep) when atLeastOne is FALSE, and
\* s.replace(/\s+c/g, rep) when it is TRUE
RECURSIVE ReplaceSpacedFrom(_, _, _, _, _, _)
ReplaceSpacedFrom(s, i, c, rep, atLeastOne, out) ==
    IF i > Len(s) \/ Len(out) < 0 THEN out
    ELSE IF /\ CharAt(s, SkipSpaces(s, i)) = c
            /\ atLeastOne => IsSpace(CharAt(s, i))
         THEN ReplaceSpacedFrom(s, IF atLeastOne THEN SkipSpaces(s, i) + 1
                                     ELSE SkipSpaces(s, SkipSpaces(s, i) + 1),
                                c, rep, atLeastOne, out \o rep)
         ELSE ReplaceSpacedFrom(s, i + 1, c, rep, atLeastOne, out \o CharAt(s, i))

ReplaceSpaced(s, c, rep, atLeastOne) == ReplaceSpacedFrom(s, 1, c, rep, atLeastOne, "")

\* one step of a .replace(...) chain:
\*   "all"        /pat/gi            "word"   /\bpat\b/gi
\*   "wordStart"  /\bpat/gi          "collapse"  /c\s*c/g -> c
\*   "spaces"     /\s+/g -> ' '      "same"   a replacement that rewrites
\*                                            each match as itself
Rule(kind, pat, rep) == [kind |-> kind, pat |-> pat, rep |-> rep]

\*   "insert"     /(left)mid(right)/g -> '$1' mid ins '$2'
InsertRule(left, mid, right, ins) ==
    [kind |-> "insert", pat |-> mid, rep |-> ins, left |-> left, right |-> right]

\*   "pair"       /a\s*b/g -> rep
PairRule(a, b, rep) == [kind |-> "pair", pat |-> a, rep |-> rep, second |-> b]

\*   "spaced"     /\s*c\s*/g -> rep, or /\s+c/g -> rep
SpacedRule(c, rep, atLeastOne) ==
    [kind |-> "spaced", pat |-> c, rep |-> rep, atLeastOne |-> atLeastOne]

ApplyRule(s, rule) ==
    CASE rule.kind = "all" -> ReplaceAll(s, rule.pat, rule.rep)
      [] rule.kind = "word" -> ReplaceWord(s, rule.pat, rule.rep)
      [] rule.kind = "wordStart" -> ReplaceWordStart(s, rule.pat, rule.rep)
      [] rule.kind = "collapse" -> CollapsePair(s, rule.pat)
      [] rule.kind = "spaces" -> CollapseSpaces(s)
      [] rule.kind = "same" -> s
      [] rule.kind = "insert" -> InsertAfter(s, rule.left, rule.pat, rule.right, rule.rep)
      [] rule.kind = "pair" -> ReplacePair(s, rule.pat, rule.second, rule.rep)
      [] rule.kind = "spaced" -> ReplaceSpaced(s, rule.pat, rule.rep, rule.atLeastOne)

\* the steps of rules applied to s one after the other
RECURSIVE ApplyRules(_, _)
ApplyRules(s, rules) ==
    IF rules = <<>> \/ Len(s) < 0 THEN s
    ELSE ApplyRules(ApplyRule(s, Head(rules)), Tail(rules))

\* lines 401-422: the chain of corrections
CorrectionRules ==
    << Rule("all", "c0rn", "corn"),
       Rule("word", "fiour", "flour"),
       Rule("word", "oll", "oil"),
       Rule("word", "sall", "salt"),
       Rule("wordStart", "water,", "water,"),
       Rule("wordStart", "sugar,", "sugar,"),
       Rule("collapse", ",", ","),
       Rule("collapse", ".", "."),
       Rule("all", "lngredients", "Ingredients"),
       Rule("word", "contams", "contains"),
       Rule("word", "allergems", "allergens"),
       Rule("all", "g1uten", "gluten"),
       Rule("all", "suger", "sugar"),
       Rule("all", "g1ucose", "glucose"),
       Rule("all", "mi1k", "milk"),
       Rule("all", "w1th", "with"),
       Rule("all", "rnay", "may"),
       Rule("all", "waler", "water"),
       Rule("all", "wafer", "water"),
       Rule("all", "frorn", "from"),
       Rule("all", "preservatlve", "preservative") >>

\* lines 401-423: the chain, then .trim()
CorrectionChain(text) == LET chained == ApplyRules(text, CorrectionRules) IN Trim(chained)

\* the lookahead (?=ingredients|\n\n|$) holds at position e
BlockEndsAt(s, ls, e) ==
    e > Len(s) \/ StartsAt(ls, e, "ingredients") \/ StartsAt(s, e, "\n\n")

\* `.*?(?=ingredients|\n\n|$)` from position p: the first position where the
\* lookahead holds (`.` matches line ends too, the s flag)
RECURSIVE BlockEnd(_, _, _)
BlockEnd(s, ls, p) == IF BlockEndsAt(s, ls, p) THEN p ELSE BlockEnd(s, ls, p + 1)

\* the position after `first\s*second` matched at i, 0 when it does not match
TwoWordsEnd(ls, i, first, second) ==
    IF StartsAt(ls, i, first) /\ StartsAt(ls, SkipSpaces(ls, i + Len(first)), second)
    THEN SkipSpaces(ls, i + Len(first)) + Len(second)
    ELSE 0

\* /nutrition\s*facts?/
NutritionFactsEnd(ls, i) ==
    LET e == TwoWordsEnd(ls, i, "nutrition", "fact")
    IN  IF e # 0 /\ StartsAt(ls, e, "s") THEN e + 1 ELSE e

\* /nutritional\s*information/
NutritionalInformationEnd(ls, i) == TwoWordsEnd(ls, i, "nutritional", "information")

\* /serving\s*size/
ServingSizeEnd(ls, i) == TwoWordsEnd(ls, i, "serving", "size")

\* /calories(\s*per\s*serving)?/
CaloriesEnd(ls, i) ==
    IF ~StartsAt(ls, i, "calories") THEN 0
    ELSE LET p == SkipSpaces(ls, i + 8)
             e == TwoWordsEnd(ls, p, "per", "serving")
         IN  IF e # 0 THEN e ELSE i + 8

\* processed.replace(regex, '') for one of the four block regexes: the first
\* match only; HeadEnd is the matcher of the head of the block
RemoveBlock(s, HeadEnd(_, _)) ==
    LET ls == ToLowerCase(s)
        starts == {i \in 1..Len(s) : HeadEnd(ls, i) # 0}
        from == Least(starts)
        upTo == BlockEnd(s, ls, HeadEnd(ls, from))
    IN  IF starts = {} THEN s ELSE Cut(s, from, upTo)

\* the whole word w, found at position i
WordAt(s, ls, i, w) ==
    StartsAt(ls, i, w) /\ WordBoundary(s, i) /\ WordBoundary(s, i + Len(w))

\* `.*?\bw\b` from position p: the position after the first whole word w that
\* starts at p or later, 0 when there is none
WordEndAfter(s, ls, p, w) ==
    LET at == {i \in p..Len(s) : WordAt(s, ls, i, w)}
    IN  IF p = 0 \/ at = {} THEN 0 ELSE Least(at) + Len(w)

\* processed.replace(/\bcalories\b.*?\bfat\b.*?\bsodium\b.*?\bprotein\b/is, '')
RemoveCaloriesTable(s) ==
    LET ls == ToLowerCase(s)
        c == WordEndAfter(s, ls, 1, "calories")
        f == WordEndAfter(s, ls, c, "fat")
        n == WordEndAfter(s, ls, f, "sodium")
        e == WordEndAfter(s, ls, n, "protein")
    IN  IF e = 0 THEN s ELSE Cut(s, c - 8, e)

\* lines 426-436: the five nutrition regexes, applied in order
StripNutrition(s) ==
    RemoveCaloriesTable(
        RemoveBlock(
            RemoveBlock(
                RemoveBlock(
                    RemoveBlock(s, NutritionFactsEnd),
                    NutritionalInformationEnd),
                ServingSizeEnd),
            CaloriesEnd))

\* the isolation taken from the last match instead of the first
IsolateIngredientsLast(s) ==
    LET ls == ToLowerCase(s)
        at == {i \in 1..Len(s) :
                StartsAt(ls, i, "ingredients") /\ IsSeparator(CharAt(s, i + 11))}
        last == CHOOSE i \in at : \A j \in at : j <= i
        rest == SubSeq(s, SkipSeparators(s, last + 11), Len(s))
    IN  IF at = {} THEN s ELSE "Ingredients: " \o Trim(rest)

\* lines 439-444: processed.match(/ingredients[\s\:\.]+([^]*)/i) and the
\* replacement by "Ingredients: " + match[1].trim()
IsolateIngredients(s) ==
    LET ls == ToLowerCase(s)
        at == {i \in 1..Len(s) :
                StartsAt(ls, i, "ingredients") /\ IsSeparator(CharAt(s, i + 11))}
        rest == SubSeq(s, SkipSeparators(s, Least(at) + 11), Len(s))
    IN  IF at = {} THEN s ELSE "Ingredients: " \o Trim(rest)

\* the function on a string that is not empty
PostprocessString(text) ==
    Trim(IsolateIngredients(StripNutrition(CorrectionChain(text))))

\* ---- JavaScript values handed to and returned by the normalisers ----
Str(s) == [type |-> "string", str |-> s]
Undefined == [type |-> "undefined", str |-> ""]
Null == [type |-> "null", str |-> ""]
ErrorValue(name) == [type |-> "error", str |-> name]

\* `!text`
Falsy(v) == v.type \in {"undefined", "null"} \/ v.str = ""

\* postprocessText of enhanced-ocr.js: `if (!text) return "";` and the rest
postprocessText(text) ==
    IF Falsy(text) THEN Returned(Str("")) ELSE Returned(Str(PostprocessString(text.str)))

\* postprocessText of server-ocr.js (386-434): the same body without the
\* guard, so that `text.replace` of undefined or null is a TypeError
postprocessTextServer(text) ==
    IF text.type # "string" THEN Threw(ErrorValue("TypeError"))
    ELSE Returned(Str(PostprocessString(text.str)))

(***************************************************************************)
(* enhanceIngredientText (src/enhanced-ocr.js 450-530,                     *)
(*                        src/static/js/server-ocr.js 437-503)             *)
(***************************************************************************)
\* what /^(ingredients|ingr?e?d?i?e?nts?|ingred|contents)/i can match
PrefixNames ==
    {"ingredients", "ingred", "contents"} \cup
    {"ing" \o r \o e \o d \o i \o f \o "nt" \o t :
        r \in {"", "r"}, e \in {"", "e"}, d \in {"", "d"}, i \in {"", "i"},
        f \in {"", "e"}, t \in {"", "s"}}

\* the first position from i on that holds a separator, Len(s) + 1 if none
RECURSIVE FindSeparator(_, _)
FindSeparator(s, i) ==
    IF i > Len(s) \/ IsSeparator(CharAt(s, i)) THEN i ELSE FindSeparator(s, i + 1)

\* the first position from i on that holds the character c, Len(s) + 1 if none
RECURSIVE FindChar(_, _, _)
FindChar(s, i, c) ==
    IF i > Len(s) \/ CharAt(s, i) = c THEN i ELSE FindChar(s, i + 1, c)

\* lines 457-462: formatted.match(/^(...)[\s\:\.]+(.*)/i); the name is what
\* stands before the first separator, and `.` stops at the end of the line
SeparatePrefix(s) ==
    LET k == FindSeparator(s, 1)
        p == SkipSeparators(s, k)
        eol == FindChar(s, p, "\n")
    IN  IF k <= Len(s) /\ ToLowerCase(SubSeq(s, 1, k - 1)) \in PrefixNames
        THEN "INGREDIENTS: " \o SubSeq(s, p, eol - 1)
        ELSE s

\* lines 465-493: the `replacements` object, in insertion order
ReplacementsEnhanced ==
    << <<"c0rn", "corn">>, <<"fiour", "flour">>, <<"oll", "oil">>, <<"sall", "salt">>,
       <<"lngredients", "Ingredients">>, <<"contams", "contains">>,
       <<"allergems", "allergens">>, <<"g1uten", "gluten">>, <<"suger", "sugar">>,
       <<"g1ucose", "glucose">>, <<"mi1k", "milk">>, <<"w1th", "with">>,
       <<"rnay", "may">>, <<"waler", "water">>, <<"wafer", "water">>,
       <<"frorn", "from">>, <<"preservatlve", "preservative">>,
       <<"emulsi ier", "emulsifier">>, <<"emulsi tier", "emulsifier">>,
       <<"NIIILK", "MILK">>, <<"NIILK", "MILK">>, <<"lecithin)", "lecithin),">>,
       <<"TRACES", "TRACES">>, <<"WHEATS", "WHEAT">>, <<"NUTS!", "NUTS">>,
       <<"NUTS1", "NUTS">>, <<"NUTSI", "NUTS">> >>

\* server-ocr.js 450-468: the table stops at 'preservatlve'
ReplacementsServer == SubSeq(ReplacementsEnhanced, 1, 17)

\* new RegExp(source, flags) is a SyntaxError ("Unmatched ')'") when source
\* holds a ")" that closes no "(": outside a character class ")" is a syntax
\* character of the pattern grammar, never a literal.  The keys of the tables
\* hold no other syntax character.
Count(source, c, upTo) == Cardinality({i \in 1..upTo : CharAt(source, i) = c})
RegExpCompiles(source) ==
    \A i \in 1..Len(source) :
        CharAt(source, i) = ")" => Count(source, "(", i) >= Count(source, ")", i)

\* `for (const [error, correction] of Object.entries(replacements))
\*      formatted = formatted.replace(new RegExp(..., 'gi'), correction);`
\* wholeWord tells whether the source is '\\b' + error + '\\b' or error alone
\* An error the RegExp constructor throws at one key ends the loop and the
\* function, and what the keys before it did to the local `formatted` is lost
\* with it.
RECURSIVE ReplaceKeys(_, _, _)
ReplaceKeys(formatted, replacements, wholeWord) ==
    IF replacements = <<>> \/ Len(formatted) < 0 THEN formatted
    ELSE LET error == Head(replacements)[1]
             correction == Head(replacements)[2]
             kind == IF wholeWord THEN "word" ELSE "all"
         IN  ReplaceKeys(ApplyRule(formatted, Rule(kind, ToLowerCase(error), correction)),
                         Tail(replacements), wholeWord)

ReplaceEach(formatted, replacements, wholeWord) ==
    IF \E k \in 1..Len(replacements) : ~RegExpCompiles(replacements[k][1])
    THEN Threw(ErrorValue("SyntaxError"))
    ELSE Returned(Str(ReplaceKeys(formatted, replacements, wholeWord)))

\* enhanced-ocr.js 499-509: the punctuation chain
PunctuationEnhanced ==
    << Rule("collapse", ",", ","),
       Rule("collapse", ".", "."),
       Rule("spaces", " ", " "),
       InsertRule("letter", ",", "letter", " "),
       InsertRule("word", ":", "word", " "),
       InsertRule("letter", ",", "letter", " "),
       InsertRule("digit", "%", "word", ", "),
       Rule("same", "(", "("),
       Rule("all", ". ", ", ") >>

\* server-ocr.js 475-481: the first five steps only
PunctuationServer == SubSeq(PunctuationEnhanced, 1, 5)

\* the statement that starts at a position of heads: after the head at least
\* one separator, then ([^\.]*)(\.|$).  heads maps a position to the position
\* after the head matched there.
RelocateClause(s, heads, label) ==
    LET from == Least(DOMAIN heads)
        p == SkipSeparators(s, heads[from])
        dot == FindChar(s, p, ".")
        upTo == IF dot <= Len(s) THEN dot + 1 ELSE dot
        clause == SubSeq(s, p, dot - 1)
        mainPart == Cut(s, from, upTo)
    IN  IF DOMAIN heads = {} THEN s
        ELSE Trim(mainPart) \o "\n\n" \o label \o ": " \o Trim(clause)

\* lines 512-518: formatted.match(/contains[\s\:\.]+([^\.]*)(\.|$)/i)
ContainsHeads(s) ==
    LET ls == ToLowerCase(s)
        at == {i \in 1..Len(s) :
                StartsAt(ls, i, "contains") /\ IsSeparator(CharAt(s, i + 8))}
    IN  [i \in at |-> i + 8]

\* lines 521-527: formatted.match(/may\s+contain[\s\:\.]+([^\.]*)(\.|$)/i)
MayContainHeads(s) ==
    LET ls == ToLowerCase(s)
        at == {i \in 1..Len(s) :
                /\ StartsAt(ls, i, "may")
                /\ IsSpace(CharAt(s, i + 3))
                /\ StartsAt(ls, SkipSpaces(s, i + 3), "contain")
                /\ IsSeparator(CharAt(s, SkipSpaces(s, i + 3) + 7))}
    IN  [i \in at |-> SkipSpaces(s, i + 3) + 7]

\* the function with its table and its punctuation chain as parameters
EnhanceWith(text, replacements, punctuation) ==
    IF Falsy(text) \/ Trim(text.str) = "" THEN Returned(text)
    ELSE LET Contains(punctuated) ==
                 RelocateClause(punctuated, ContainsHeads(punctuated), "CONTAINS")
             MayContain(contains) ==
                 RelocateClause(contains, MayContainHeads(contains), "MAY CONTAIN")
             Punctuated(replaced) ==
                 IF replaced.threw THEN replaced
                 ELSE Returned(Str(Trim(MayContain(Contains(
                          ApplyRules(replaced.value.str, punctuation))))))
         IN  Punctuated(ReplaceEach(SeparatePrefix(text.str), replacements, TRUE))

enhanceIngredientText(text) == EnhanceWith(text, ReplacementsEnhanced, PunctuationEnhanced)
enhanceIngredientTextServer(text) == EnhanceWith(text, ReplacementsServer, PunctuationServer)

\* `const cleanedText = postprocessText(combinedText);
\*  const enhancedText = enhanceIngredientText(cleanedText);`
normalize(text) ==
    LET enhancedText(cleanedText) ==
            IF cleanedText.threw THEN cleanedText
            ELSE enhanceIngredientText(cleanedText.value)
    IN  enhancedText(postprocessText(text))

normalizeServer(text) ==
    LET enhancedText(cleanedText) ==
            IF cleanedText.threw THEN cleanedText
            ELSE enhanceIngredientTextServer(cleanedText.value)
    IN  enhancedText(postprocessTextServer(text))

(***************************************************************************)
(* cleanFoodLabelText (src/enhanced-ocr.js 1030-1098)                      *)
(***************************************************************************)
\* lines 1037-1042: cleaned.match(/ingredients\s*:?\s*([^.]*\.?)/i); the
\* section runs up to and with the next period
ExtractSection(s) ==
    LET ls == ToLowerCase(s)
        at == {i \in 1..Len(s) : StartsAt(ls, i, "ingredients")}
        colon == SkipSpaces(s, Least(at) + 11)
        p == SkipSpaces(s, IF CharAt(s, colon) = ":" THEN colon + 1 ELSE colon)
        dot == FindChar(s, p, ".")
        section == SubSeq(s, p, IF dot <= Len(s) THEN dot ELSE Len(s))
    IN  IF at = {} \/ section = "" THEN s ELSE "INGREDIENTS: " \o Trim(section)

\* lines 1045-1049
SeparatorRules ==
    << InsertRule("letter", ",", "letter", " "),
       InsertRule("digit", "%", "word", ", "),
       Rule("same", "(", "("),
       Rule("all", ". ", ", ") >>

\* lines 1052-1083: the `replacements` object, in insertion order
ReplacementsFoodLabel ==
    << <<"Ingred ents", "Ingredients">>, <<"ingred ents", "ingredients">>,
       <<"INGRED ENTS", "INGREDIENTS">>, <<"Ingredienis", "Ingredients">>,
       <<"Ingrediants", "Ingredients">>, <<"Ingredants", "Ingredients">>,
       <<"inodified", "modified">>, <<"xantnan", "xanthan">>, <<"xaninan", "xanthan">>,
       <<"xantnem", "xanthan">>, <<"gum,", "gum,">>, <<"flcur", "flour">>,
       <<"flour,", "flour,">>, <<"bran,", "bran,">>, <<"staren", "starch">>,
       <<"starcn", "starch">>, <<"sirch", "starch">>, <<"starci", "starch">>,
       <<"stabilzed", "stabilized">>, <<"siabilized", "stabilized">>,
       <<"emulsi ier", "emulsifier">>, <<"emulsi tier", "emulsifier">>,
       <<"NIIILK", "MILK">>, <<"NIILK", "MILK">>, <<"lecithin)", "lecithin),">>,
       <<"TRACES", "TRACES">>, <<"WHEATS", "WHEAT">>, <<"NUTS!", "NUTS">>,
       <<"NUTS1", "NUTS">>, <<"NUTSI", "NUTS">> >>

\* lines 1089-1095
FormattingRules ==
    << InsertRule("letter", ",", "letter", " "),
       SpacedRule(".", ".", TRUE),
       SpacedRule("(", " (", FALSE),
       SpacedRule(")", ") ", FALSE),
       PairRule(".", ",", ","),
       Rule("collapse", ".", ".") >>

cleanFoodLabelText(text) ==
    IF Falsy(text) THEN Returned(Str(""))
    ELSE LET cleaned == Trim(CollapseSpaces(text.str))
             separated == ApplyRules(ExtractSection(cleaned), SeparatorRules)
             Formatted(replaced) ==
                 IF replaced.threw THEN replaced
                 ELSE Returned(Str(ApplyRules(replaced.value.str, FormattingRules)))
         IN  Formatted(ReplaceEach(separated, ReplacementsFoodLabel, FALSE))

(***************************************************************************)
(* The normalisers called on their own: on a text put together from        *)
(* pieces of label text, on one of a few whole label texts, or on a        *)
(* missing value; then once more on what the first call returned.          *)
(***************************************************************************)
Tokens ==
    {"Ingredients: ", "lngredients ", "c0rn, ", "sall", ",", "calories 9 "}

LabelTexts ==
    {"lngredients: c0rn starch, g1uten, sall",
     "Nutrition Facts 100 INGREDIENTS: Water, sugar",
     "calories\n\ncalories ingredients: fat sodium protein",
     "contents: rice fiour",
     "salt... pepper,,,, sugar",
     "rice flour,salt. Contains: milk. May contain nuts.",
     "Ingredients: rice flour. Contains milk. May contain nuts",
     "  ", "\n"}

Functions ==
    {"postprocessText", "postprocessTextServer", "enhanceIngredientText",
     "enhanceIngredientTextServer", "cleanFoodLabelText", "normalize", "normalizeServer"}

Apply(f, v) ==
    CASE f = "postprocessText" -> postprocessText(v)
      [] f = "postprocessTextServer" -> postprocessTextServer(v)
      [] f = "enhanceIngredientText" -> enhanceIngredientText(v)
      [] f = "enhanceIngredientTextServer" -> enhanceIngredientTextServer(v)
      [] f = "cleanFoodLabelText" -> cleanFoodLabelText(v)
      [] f = "normalize" -> normalize(v)
      [] f = "normalizeServer" -> normalizeServer(v)

NoCall == Returned(Undefined)

NormalizerIdle ==
    /\ npc = "idle"
    /\ ninput = Str("")
    /\ ntokens = 0
    /\ nfun = "none"
    /\ nfirst = NoCall
    /\ nsecond = NoCall

InitNormalizer ==
    /\ npc = "compose"
    /\ ninput = Str("")
    /\ ntokens = 0
    /\ nfun = "none"
    /\ nfirst = NoCall
    /\ nsecond = NoCall

\* the text grows by one piece
AppendToken ==
    /\ npc = "compose"
    /\ ninput.type = "string"
    /\ ntokens < MaxTokens
    /\ \E t \in Tokens : ninput' = Str(ninput.str \o t)
    /\ ntokens' = ntokens + 1
    /\ UNCHANGED <<npc, nfun, nfirst, nsecond>>
    /\ UNCHANGED notNormalizer

\* the text is a whole label text
TakeLabelText ==
    /\ npc = "compose"
    /\ ntokens = 0
    /\ \E t \in LabelTexts : ninput' = Str(t)
    /\ ntokens' = MaxTokens
    /\ UNCHANGED <<npc, nfun, nfirst, nsecond>>
    /\ UNCHANGED notNormalizer

\* there is no text: the caller hands over undefined or null
TakeMissing ==
    /\ npc = "compose"
    /\ ntokens = 0
    /\ ninput' \in {Undefined, Null}
    /\ ntokens' = MaxTokens
    /\ UNCHANGED <<npc, nfun, nfirst, nsecond>>
    /\ UNCHANGED notNormalizer

\* f(input)
Call ==
    /\ npc = "compose"
    /\ \E f \in Functions :
        /\ nfun' = f
        /\ nfirst' = Apply(f, ninput)
    /\ npc' = "called"
    /\ UNCHANGED <<ninput, ntokens, nsecond>>
    /\ UNCHANGED notNormalizer

\* f(f(input)), when f(input) returned
CallAgain ==
    /\ npc = "called"
    /\ ~nfirst.threw
    /\ nsecond' = Apply(nfun, nfirst.value)
    /\ npc' = "again"
    /\ UNCHANGED <<ninput, ntokens, nfun, nfirst>>
    /\ UNCHANGED notNormalizer

(***************************************************************************)
(* The multi-pass pipelines                                                *)
(*   "enhanced"  enhanceAndRecognizeText  src/enhanced-ocr.js 533-632      *)
(*   "foodLabel" performFoodLabelOCR      src/enhanced-ocr.js 635-759      *)
(*   "server"    enhanceAndRecognizeText  src/static/js/server-ocr.js      *)
(*                                        506-561                          *)
(* The OCR engine is an external capability: each pass either returns a    *)
(* result {text, confidence} with confidence in 0..100, or throws.         *)
(***************************************************************************)
Variants == {"enhanced", "foodLabel", "server"}

\* number of recognition passes the function makes
NumPasses(v) == IF v = "enhanced" THEN 2 ELSE 3

\* whether each pass sits in its own try { } catch (e) { }
CatchesPassErrors(v) == v \in {"enhanced", "foodLabel"}

\* what the engine may read off an image: nothing, text without any keyword,
\* text with "ingredients", and text with culinary keywords only
PassTexts ==
    {"", "abc", "xyz def", "INGREDIENTS WATER SALT", "rice flour and xanthan gum"}
PassConfidences == {0, 85, 100}
EngineResult == [text : PassTexts, confidence : PassConfidences]
NoResult == [text |-> "", confidence |-> 0]

\* the results of the passes that succeeded, in pass order
Succeeded(log) ==
    LET ok == SelectSeq(log, LAMBDA e : e.status = "ok")
    IN  [i \in 1..Len(ok) |-> ok[i].result]

AfterPass(log, v) == IF Len(log) = NumPasses(v) THEN "select" ELSE "pass"

\* `const result = await performOCR(...); results.push(result);`
PassSucceeds ==
    /\ pc = "pass"
    /\ \E r \in EngineResult :
        /\ passLog' = Append(passLog, [status |-> "ok", result |-> r])
        /\ results' = Append(results, r)
    /\ pc' = AfterPass(passLog', variant)
    /\ UNCHANGED <<variant, bestText, bestConfidence, combinedText, retText, retConfidence, outcome>>
    /\ UNCHANGED notPipeline

\* the engine throws inside the pass's own try block: logged, nothing pushed
PassFailsCaught ==
    /\ pc = "pass"
    /\ CatchesPassErrors(variant)
    /\ passLog' = Append(passLog, [status |-> "failed", result |-> NoResult])
    /\ pc' = AfterPass(passLog', variant)
    /\ UNCHANGED <<variant, results, bestText, bestConfidence, combinedText,
                   retText, retConfidence, outcome>>
    /\ UNCHANGED notPipeline

\* the engine throws and only the function's outer catch sees it, which rethrows
PassFailsUncaught ==
    /\ pc = "pass"
    /\ ~CatchesPassErrors(variant)
    /\ passLog' = Append(passLog, [status |-> "failed", result |-> NoResult])
    /\ outcome' = "thrown"
    /\ pc' = "done"
    /\ UNCHANGED <<variant, results, bestText, bestConfidence, combinedText, retText, retConfidence>>
    /\ UNCHANGED notPipeline

\* `for (const result of results) if (result.confidence > bestConfidence) ...`
\* mutant: the first result is kept, whatever the confidences
PickBestFirst(rs, best) == IF rs = <<>> THEN best ELSE Head(rs)

RECURSIVE PickBest(_, _)
PickBest(rs, best) ==
    IF rs = <<>> THEN best
    ELSE IF Head(rs).confidence > best.confidence
         THEN PickBest(Tail(rs), Head(rs))
         ELSE PickBest(Tail(rs), best)

\* `let bestText = ''; let bestConfidence = 0;` and the loop after them
SelectBest ==
    /\ pc = "select"
    /\ variant \in {"enhanced", "server"}
    /\ LET best == PickBest(results, [text |-> "", confidence |-> 0])
       IN  /\ bestText' = best.text
           /\ bestConfidence' = best.confidence
    /\ pc' = "return"
    /\ UNCHANGED <<variant, passLog, results, combinedText, retText, retConfidence, outcome>>
    /\ UNCHANGED notPipeline

\* enhanced: `combinedText = bestText; if (results.length > 1) combinedText =
\* combineOcrResults(results)`; server: always combineOcrResults(results).
\* Then postprocessText and enhanceIngredientText; what they throw leaves the
\* function through `catch (error) { ...; throw error; }`.  The object
\* returned carries the normalised text and bestConfidence.
ReturnBest ==
    /\ pc = "return"
    /\ variant \in {"enhanced", "server"}
    /\ combinedText' = IF variant = "server" \/ Len(results) > 1
                       THEN combineOcrResults(results)
                       ELSE bestText
    /\ LET enhancedText == IF variant = "server" THEN normalizeServer(Str(combinedText'))
                           ELSE normalize(Str(combinedText'))
       IN  IF enhancedText.threw
           THEN outcome' = "thrown" /\ UNCHANGED <<retText, retConfidence>>
           ELSE /\ outcome' = "returned"
                /\ retText' = enhancedText.value.str
                /\ retConfidence' = bestConfidence
    /\ pc' = "done"
    /\ UNCHANGED <<variant, passLog, results, bestText, bestConfidence>>
    /\ UNCHANGED notPipeline

\* text.match(/ingredients/i)
MatchesIngredients(text) == Includes(ToLowerCase(text), "ingredients")

\* text.match(/flour|bran|starch|gum|sugar|salt|water/gi)
Keywords == {"flour", "bran", "starch", "gum", "sugar", "salt", "water"}
MatchesKeyword(text) == \E k \in Keywords : Includes(ToLowerCase(text), k)

\* the loop over texts that keeps the "best" one
RECURSIVE PickByKeyword(_, _)
PickByKeyword(texts, best) ==
    IF texts = <<>> THEN best
    ELSE LET text == Head(texts) IN
         IF MatchesIngredients(text) \/ (MatchesKeyword(text) /\ Len(text) > Len(best))
         THEN PickByKeyword(Tail(texts), text)
         ELSE PickByKeyword(Tail(texts), best)

NoTextDetected == "No text detected"

\* mutant: the fallback keeps the longest text only
SelectedOrFallbackLongest(picked, rs) ==
    IF picked = "" /\ Len(rs) > 0 THEN LongestText(rs, "", 0)
    ELSE IF picked = "" THEN NoTextDetected
    ELSE picked

\* lines 738-743: `if (!bestText && results.length > 0) bestText =
\* combineOcrResults(...); else if (!bestText) bestText = "No text detected"`
SelectedOrFallback(picked, rs) ==
    IF picked = "" /\ Len(rs) > 0 THEN combineOcrResults(rs)
    ELSE IF picked = "" THEN NoTextDetected
    ELSE picked

\* performFoodLabelOCR: pick by keyword, else combine, else "No text detected"
SelectByKeyword ==
    /\ pc = "select"
    /\ variant = "foodLabel"
    /\ LET texts == [i \in 1..Len(results) |-> results[i].text]
       IN  bestText' = SelectedOrFallback(PickByKeyword(texts, ""), results)
    /\ pc' = "return"
    /\ UNCHANGED <<variant, passLog, results, bestConfidence, combinedText,
                   retText, retConfidence, outcome>>
    /\ UNCHANGED notPipeline

\* Math.max() of no arguments is -Infinity: a number below every confidence
NegInfinity == -1000000

\* Math.max(...xs)
MathMax(xs) ==
    IF xs = <<>> THEN NegInfinity
    ELSE CHOOSE m \in Range(xs) : \A x \in Range(xs) : x <= m

\* `const cleanedText = cleanFoodLabelText(bestText);
\*  return { text: cleanedText,
\*           confidence: Math.max(...results.map(r => r.data.confidence || 0)), ... }`
\* what cleanFoodLabelText throws leaves the function through the catch, which
\* throws it again
ReturnFoodLabel ==
    /\ pc = "return"
    /\ variant = "foodLabel"
    /\ LET cleanedText == cleanFoodLabelText(Str(bestText))
       IN  IF cleanedText.threw
           THEN outcome' = "thrown" /\ UNCHANGED <<retText, retConfidence>>
           ELSE /\ outcome' = "returned"
                /\ retText' = cleanedText.value.str
                /\ retConfidence' = MathMax([i \in 1..Len(results) |-> results[i].confidence])
    /\ pc' = "done"
    /\ UNCHANGED <<variant, passLog, results, bestText, bestConfidence, combinedText>>
    /\ UNCHANGED notPipeline

PipelineIdle ==
    /\ pc = "idle"
    /\ variant = "enhanced"
    /\ passLog = <<>>
    /\ results = <<>>
    /\ bestText = ""
    /\ bestConfidence = 0
    /\ combinedText = ""
    /\ retText = ""
    /\ retConfidence = 0
    /\ outcome = "none"

InitPipeline ==
    /\ pc = "pass"
    /\ variant \in Variants
    /\ passLog = <<>>
    /\ results = <<>>
    /\ bestText = ""
    /\ bestConfidence = 0
    /\ combinedText = ""
    /\ retText = ""
    /\ retConfidence = 0
    /\ outcome = "none"

(***************************************************************************)
(* JavaScript numbers: IEEE 754 binary64.  A positive number is a record    *)
(* [mant, exp]: mant the Precision bits of its significand, the leading 1   *)
(* first, and exp the exponent of that leading bit.  The sizes of an image  *)
(* are integers; MAX_SIZE / width and width * scale are rounded to the      *)
(* nearest number, ties to the even significand.                            *)
(***************************************************************************)
Precision == 53

\* mant + 1, carried into the exponent when every bit is 1
RoundUp(mant, exp) ==
    LET zeros == {i \in 1..Len(mant) : mant[i] = 0}
        p == CHOOSE i \in zeros : \A j \in zeros : j <= i
    IN  IF zeros = {}
        THEN [mant |-> [i \in 1..Len(mant) |-> IF i = 1 THEN 1 ELSE 0], exp |-> exp + 1]
        ELSE [mant |-> [i \in 1..Len(mant) |->
                            IF i < p THEN mant[i] ELSE IF i = p THEN 1 ELSE 0],
              exp |-> exp]

\* round is the first bit dropped, sticky tells whether anything follows it
RoundNearestEven(mant, exp, round, sticky) ==
    IF round = 1 /\ (sticky \/ mant[Len(mant)] = 1) THEN RoundUp(mant, exp)
    ELSE [mant |-> mant, exp |-> exp]

\* the first n bits of r / b after the binary point (0 <= r < b), and the
\* remainder left
RECURSIVE QuotientBits(_, _, _, _)
QuotientBits(r, b, n, out) ==
    IF n = 0 \/ Len(out) < 0 THEN [bits |-> out, rem |-> r]
    ELSE IF 2 * r >= b THEN QuotientBits(2 * r - b, b, n - 1, Append(out, 1))
         ELSE QuotientBits(2 * r, b, n - 1, Append(out, 0))

\* zeros between the binary point and the first 1 of a / b
RECURSIVE LeadingZeros(_, _)
LeadingZeros(a, b) == IF 2 * a >= b THEN 0 ELSE 1 + LeadingZeros(2 * a, b)

\* a / b, for integers 0 < a < b
Divide(a, b) ==
    LET z == LeadingZeros(a, b)
        q == QuotientBits(a, b, z + Precision + 1, <<>>)
    IN  RoundNearestEven(SubSeq(q.bits, z + 1, z + Precision), -(z + 1),
                         q.bits[z + Precision + 1], q.rem # 0)

\* the binary digits of n, the most significant first
RECURSIVE Binary(_)
Binary(n) == IF n = 0 THEN <<>> ELSE Append(Binary(n \div 2), n % 2)

\* the integer a sequence of bits writes
RECURSIVE BitsValue(_)
BitsValue(bits) ==
    IF bits = <<>> THEN 0
    ELSE 2 * BitsValue(SubSeq(bits, 1, Len(bits) - 1)) + bits[Len(bits)]

\* the bits of the integer mant times n, worked from the last bit up
RECURSIVE TimesBits(_, _, _, _, _)
TimesBits(mant, i, n, carry, out) ==
    IF i = 0 \/ Len(out) < 0 THEN Binary(carry) \o out
    ELSE TimesBits(mant, i - 1, n, (mant[i] * n + carry) \div 2,
                   <<(mant[i] * n + carry) % 2>> \o out)

\* x * n, for an integer n > 0
Times(x, n) ==
    LET product == TimesBits(x.mant, Precision, n, 0, <<>>)
        more == Len(product) - Precision
    IN  IF more = 0 THEN x
        ELSE RoundNearestEven(SubSeq(product, 1, Precision), x.exp + more,
                              product[Precision + 1],
                              \E i \in (Precision + 2)..Len(product) : product[i] = 1)

\* Math.floor(x), which is also what a canvas size keeps of x
Floor(x) == IF x.exp < 0 THEN 0 ELSE BitsValue(SubSeq(x.mant, 1, x.exp + 1))

\* x has no fractional part
IsInteger(x) == x.exp >= 0 /\ \A i \in (x.exp + 2)..Precision : x.mant[i] = 0

\* a size as the code holds it: its integer part, and whether that is all
Size(x) == [floor |-> Floor(x), whole |-> IsInteger(x)]
WholeSize(n) == [floor |-> n, whole |-> TRUE]

Max(a, b) == IF a >= b THEN a ELSE b

(***************************************************************************)
(* Downscaling                                                             *)
(*   getImageData of preprocessImage  src/enhanced-ocr.js 60-153           *)
(*   enhanceAndRecognizeText          src/unnamed/part_001 121-167         *)
(***************************************************************************)
MAX_SIZE == 1500
MAX_SIZE_SIMPLIFIED == 1000

\* `scale = Math.min(MAX_SIZE / width, MAX_SIZE / height)`: rounding keeps the
\* order of the two quotients, so the smaller one is the quotient by the
\* larger side, which is above max
Scale(max, width, height) == Divide(max, Max(width, height))

\* lines 83-108 and 128-153: `width *= scale; height *= scale;` and the
\* canvas sized with them; an image within MAX_SIZE keeps its sizes
ScaleToCanvas(width, height) ==
    IF width > MAX_SIZE \/ height > MAX_SIZE
    THEN LET scale == Scale(MAX_SIZE, width, height)
             w == Times(scale, width)
             h == Times(scale, height)
         IN  [width |-> Size(w), height |-> Size(h),
              canvasWidth |-> Floor(w), canvasHeight |-> Floor(h)]
    ELSE [width |-> WholeSize(width), height |-> WholeSize(height),
          canvasWidth |-> width, canvasHeight |-> height]

\* a canvas handed in is used as it is (lines 64-71)
getImageData(source) ==
    IF source.tagName = "CANVAS"
    THEN [width |-> WholeSize(source.width), height |-> WholeSize(source.height),
          canvasWidth |-> source.width, canvasHeight |-> source.height]
    ELSE ScaleToCanvas(source.width, source.height)

\* `Math.floor(width * scale)`, `Math.floor(height * scale)` when a side is
\* above max (part_001 131-137, correctImageOrientation 327-335)
FlooredSizes(max, width, height) ==
    IF width > max \/ height > max
    THEN LET scale == Scale(max, width, height)
         IN  [width |-> Floor(Times(scale, width)), height |-> Floor(Times(scale, height))]
    ELSE [width |-> width, height |-> height]

\* part_001 128-148
scaleSimplified(source) ==
    LET sizes == FlooredSizes(MAX_SIZE_SIMPLIFIED, source.width, source.height)
    IN  [width |-> WholeSize(sizes.width), height |-> WholeSize(sizes.height),
         canvasWidth |-> sizes.width, canvasHeight |-> sizes.height]

(***************************************************************************)
(* correctImageOrientation (src/enhanced-ocr.js 316-394)                   *)
(***************************************************************************)
\* the steps inside the try block that may raise
Steps == {"createElement", "drawImage", "detect", "rotate"}
Angles == {0, 90, 180, 270, -90}

\* what a run meets: the step that raises ("none" when none does), whether
\* the engine's result has an orientation, and the angle in it
Detections ==
    [fault : Steps \cup {"none"}, orientation : BOOLEAN, angle : Angles]

\* `result.orientation && result.orientation.angle !== 0`
NeedsRotation(d) == d.orientation /\ d.angle # 0

\* the data URL of the rotated canvas, an image of the sizes of that canvas
RotatedImage(image, d) ==
    LET sizes == FlooredSizes(MAX_SIZE, image.width, image.height)
        swap == d.angle \in {90, -90, 270}
    IN  [tagName |-> "URL",
         width |-> IF swap THEN sizes.height ELSE sizes.width,
         height |-> IF swap THEN sizes.width ELSE sizes.height,
         rotation |-> d.angle]

\* the step at fault is one the run comes to: the rotation is attempted
\* only when one is needed
Raises(d) ==
    \/ d.fault \in {"createElement", "drawImage", "detect"}
    \/ d.fault = "rotate" /\ NeedsRotation(d)

\* the function without its catch block: what a step raises leaves it
correctImageOrientationUncaught(image, d) ==
    IF Raises(d) THEN Threw(ErrorValue("Error"))
    ELSE IF NeedsRotation(d) THEN Returned(RotatedImage(image, d))
         ELSE Returned(image)

\* the whole body is inside `try`; the catch returns the image handed in
correctImageOrientation(image, d) ==
    IF Raises(d) THEN Returned(image)
    ELSE IF NeedsRotation(d) THEN Returned(RotatedImage(image, d))
         ELSE Returned(image)

\* the sizes of the images handed in: below the limits, at a limit, just
\* above one, the 2400 x 1800 of the large photograph, and sizes in between
Sides == {800, 1000, 1001, 1062, 1159, 1500, 1501, 1800, 2126, 2147, 2400}
TagNames == {"IMG", "CANVAS"}
Images == [tagName : TagNames, width : Sides, height : Sides, rotation : {0}]

NoImage == [tagName |-> "IMG", width |-> 1, height |-> 1, rotation |-> 0]
NoDetection == [fault |-> "none", orientation |-> FALSE, angle |-> 0]
NoSizes ==
    [width |-> WholeSize(0), height |-> WholeSize(0), canvasWidth |-> 0, canvasHeight |-> 0]

ImageIdle ==
    /\ ipc = "idle"
    /\ imageElement = NoImage
    /\ iimpl = "enhanced"
    /\ detection = NoDetection
    /\ orientedImage = NoImage
    /\ scaled = NoSizes

InitImage ==
    /\ ipc = "start"
    /\ imageElement \in Images
    /\ iimpl \in {"enhanced", "simplified"}
    /\ detection = NoDetection
    /\ orientedImage = NoImage
    /\ scaled = NoSizes

\* `const orientedImage = await correctImageOrientation(imageElement);`
\* inside the try of enhanceAndRecognizeText, whose catch throws again
CorrectOrientation ==
    /\ ipc = "start"
    /\ iimpl = "enhanced"
    /\ \E d \in Detections :
        LET r == correctImageOrientation(imageElement, d)
        IN  /\ detection' = d
            /\ IF r.threw
               THEN ipc' = "thrown" /\ orientedImage' = NoImage
               ELSE ipc' = "oriented" /\ orientedImage' = r.value
    /\ UNCHANGED <<imageElement, iimpl, scaled>>
    /\ UNCHANGED notImage

\* `await preprocessImage(orientedImage)`, as far as getImageData
Preprocess ==
    /\ ipc = "oriented"
    /\ scaled' = getImageData(orientedImage)
    /\ ipc' = "preprocessed"
    /\ UNCHANGED <<imageElement, iimpl, detection, orientedImage>>
    /\ UNCHANGED notImage

\* enhanceAndRecognizeText of part_001, as far as the canvas it draws on
ScaleSimplified ==
    /\ ipc = "start"
    /\ iimpl = "simplified"
    /\ scaled' = scaleSimplified(imageElement)
    /\ ipc' = "done"
    /\ UNCHANGED <<imageElement, iimpl, detection, orientedImage>>
    /\ UNCHANGED notImage

(***************************************************************************)
(* performServerOCR (src/static/js/server-ocr.js 6-75,                     *)
(*                   src/unnamed/part_000 6-59)                            *)
(***************************************************************************)
\* the three elements the function writes: scanningMessage.style.display,
\* ocrProgressText.textContent, ocrProgress.style.width
ProgressTexts == {"", "Processing image on server...", "Scan complete"}
Widths == {"0%", "50%", "100%"}
UiStates == [display : {"none", "block"}, text : ProgressTexts, width : Widths]

\* lines 11-13: "Show loading UI"
ShowLoading(u) ==
    [display |-> "block", text |-> "Processing image on server...", width |-> "50%"]

\* lines 53 and 72: "Hide loading UI"
HideLoading(u) == [u EXCEPT !.display = "none"]

\* what `await response.json()` gives: the JSON value null, or an object
\* whose `success` is true, false or missing, with or without an `error`
JsonNull ==
    [kind |-> "null", success |-> "absent", error |-> "", text |-> "", confidence |-> 0]
JsonObjects ==
    [kind : {"object"}, success : {"true", "false", "absent"},
     error : {"", "No text found in image"}, text : {"", "INGREDIENTS: rice"},
     confidence : {0, 90}]
JsonValues == JsonObjects \cup {JsonNull}

\* how the request ended: the step that failed ("none" when the body was
\* parsed) and the value parsed
NoReply == [failed |-> "none yet", value |-> JsonNull]
Reply(failed, value) == [failed |-> failed, value |-> value]

\* what the call gives its caller
NoOutcome == [kind |-> "none", message |-> "", text |-> "", confidence |-> 0]
Rejected(message) ==
    [kind |-> "thrown", message |-> message, text |-> "", confidence |-> 0]
Resolved(text, confidence) ==
    [kind |-> "returned", message |-> "", text |-> text, confidence |-> confidence]

\* the errors of the steps the function awaits or calls
TransportErrors == {"Failed to fetch"}
ParseErrors == {"Unexpected token < in JSON"}
CanvasErrors == {"The canvas has been tainted"}

\* lines 56-65 read nothing of the result when success is true
ResultIgnoringSuccess(result) ==
    IF result.kind = "null" THEN Rejected("TypeError")
    ELSE Resolved(result.text, result.confidence)

\* lines 56-65: `if (!result.success) throw new Error(result.error ||
\* 'Server error processing image'); return {text, confidence}`; reading
\* `success` of null is a TypeError
Result(result) ==
    IF result.kind = "null" THEN Rejected("TypeError")
    ELSE IF result.success # "true"
         THEN Rejected(IF result.error # "" THEN result.error
                       ELSE "Server error processing image")
         ELSE Resolved(result.text, result.confidence)

ServerIdle ==
    /\ xpc = "idle"
    /\ ui = [display |-> "none", text |-> "", width |-> "0%"]
    /\ uiBefore = ui
    /\ reply = NoReply
    /\ xout = NoOutcome

InitServer ==
    /\ xpc = "start"
    /\ ui \in UiStates
    /\ uiBefore = ui
    /\ reply = NoReply
    /\ xout = NoOutcome

\* lines 7-47: the loading UI is shown, the canvas is drawn and encoded and
\* the request is sent; an error of the canvas goes to the catch block
SendImage ==
    /\ xpc = "start"
    /\ \/ /\ ui' = ShowLoading(ui)
          /\ xpc' = "fetching"
          /\ UNCHANGED <<reply, xout>>
       \/ \E e \in CanvasErrors :
            /\ ui' = HideLoading(ShowLoading(ui))
            /\ reply' = Reply("canvas", JsonNull)
            /\ xout' = Rejected(e)
            /\ xpc' = "done"
    /\ UNCHANGED uiBefore
    /\ UNCHANGED notServer

\* line 41: `await fetch(...)` settles; a rejection goes to the catch block
\* (lines 67-74), which hides the message and throws the error again
FetchSettles ==
    /\ xpc = "fetching"
    /\ \/ xpc' = "parsing" /\ UNCHANGED <<ui, reply, xout>>
       \/ \E e \in TransportErrors :
            /\ ui' = HideLoading(ui)
            /\ reply' = Reply("fetch", JsonNull)
            /\ xout' = Rejected(e)
            /\ xpc' = "done"
    /\ UNCHANGED uiBefore
    /\ UNCHANGED notServer

\* lines 50-65: `await response.json()` settles; lines 53-65 run on its
\* value, and what they throw goes to the catch block as well
JsonSettles ==
    /\ xpc = "parsing"
    /\ \/ \E result \in JsonValues :
            /\ ui' = HideLoading(ui)
            /\ reply' = Reply("none", result)
            /\ xout' = Result(result)
       \/ \E e \in ParseErrors :
            /\ ui' = HideLoading(ui)
            /\ reply' = Reply("json", JsonNull)
            /\ xout' = Rejected(e)
    /\ xpc' = "done"
    /\ UNCHANGED uiBefore
    /\ UNCHANGED notServer

(***************************************************************************)
(* The filter banks: preprocessImage (src/enhanced-ocr.js 157-277) and     *)
(* preprocessFoodLabel (src/enhanced-ocr.js 866-1027), without the pixels  *)
(***************************************************************************)
\* line 164: `const isSmallCrop = width < 500 || height < 200;`
IsSmallCrop(width, height) == width < 500 \/ height < 200

\* line 202: `const C = isSmallCrop ? 10 : 5;`
Bias(width, height) == IF IsSmallCrop(width, height) THEN 10 ELSE 5

\* line 244: `const threshold = isSmallCrop ? 140 : 150;`
FixedThreshold(width, height) == IF IsSmallCrop(width, height) THEN 140 ELSE 150

\* the variants a function makes for an image of a size, in the order of its
\* result array, each with the number it binarizes with
Variant(name, parameter) == [name |-> name, parameter |-> parameter]
VariantsOf(fun, width, height) ==
    IF fun = "preprocessImage"
    THEN << Variant("adaptive", Bias(width, height)),
            Variant("contrast", FixedThreshold(width, height)) >>
    ELSE << Variant("highContrast", 160),
            Variant("adaptiveEdge", 7),
            Variant("lowThreshold", 130) >>

\* where a run fails: nowhere, in getImageData, while the index-th variant is
\* made, or while the index-th canvas is encoded for the result array
Faults ==
    [at : {"none", "source"}, index : {0}] \cup [at : {"variant", "encode"}, index : 1..3]
FaultsOf(fun) == {f \in Faults : f.index <= Len(VariantsOf(fun, 500, 500))}

\* the variants whose canvases were finished when the run failed or ended
ProducedBefore(variants, fault) ==
    CASE fault.at = "source" -> <<>>
      [] fault.at = "variant" -> SubSeq(variants, 1, fault.index - 1)
      [] OTHER -> variants

\* the body is one try block whose catch throws again; the result array is
\* built after the last variant
FilterResult(variants, fault) ==
    IF fault.at = "none" THEN [kind |-> "returned", variants |-> variants]
    ELSE [kind |-> "thrown", variants |-> <<>>]

FilterSides == {150, 199, 200, 300, 499, 500, 800}
NoFault == [at |-> "none", index |-> 0]
NoVariants == [kind |-> "none", variants |-> <<>>]

FilterIdle ==
    /\ kpc = "idle"
    /\ kfun = "preprocessImage"
    /\ ksize = [width |-> 0, height |-> 0]
    /\ kfault = NoFault
    /\ kproduced = <<>>
    /\ kout = NoVariants

InitFilter ==
    /\ kpc = "start"
    /\ kfun \in {"preprocessImage", "preprocessFoodLabel"}
    /\ ksize \in [width : FilterSides, height : FilterSides]
    /\ kfault = NoFault
    /\ kproduced = <<>>
    /\ kout = NoVariants

\* one call of preprocessImage or preprocessFoodLabel
PreprocessCall ==
    /\ kpc = "start"
    /\ \E fault \in FaultsOf(kfun) :
        /\ kfault' = fault
        /\ kproduced' = ProducedBefore(VariantsOf(kfun, ksize.width, ksize.height), fault)
        /\ kout' = FilterResult(VariantsOf(kfun, ksize.width, ksize.height), fault)
    /\ kpc' = "done"
    /\ UNCHANGED <<kfun, ksize>>
    /\ UNCHANGED notFilter

(***************************************************************************)
(* The wait for the decoded image in getImageData                          *)
(*   src/enhanced-ocr.js 73-78 (IMG), 112-123 (URL or data URI)            *)
(*   src/static/js/server-ocr.js 160-187                                   *)
(***************************************************************************)
\* the sources: an IMG element that is complete (decoded, or broken), an IMG
\* element still loading, a URL or data URI
DecodeSides == {800, 1500, 2400}
DecodeSources ==
    {s \in [tagName : {"IMG", "URL"}, complete : BOOLEAN, broken : BOOLEAN,
            width : DecodeSides, height : DecodeSides, rotation : {0}] :
        /\ s.broken => s.complete
        /\ s.tagName = "URL" => ~s.complete}

\* the handlers the executor of the awaited promise installs
HandlersFor(impl, source) ==
    IF source.tagName = "IMG" THEN {"onload"}
    ELSE IF impl = "enhanced" THEN {"onload", "onerror"}
         ELSE {"onload"}

\* `if(source.complete) resolve();`
ResolvesAtOnce(source) == source.tagName = "IMG" /\ source.complete

\* what follows the await reads the sizes of the image: an image that did
\* not decode has width and height 0, and drawImage or
\* getImageData(0, 0, 0, 0) raises; the sizes of a decoded image go on to
\* the scaling (ScaleToCanvas)
DecodedData(source, failed) ==
    IF failed THEN [kind |-> "error", width |-> 0, height |-> 0]
    ELSE [kind |-> "data", width |-> source.width, height |-> source.height]

NoSource ==
    [tagName |-> "IMG", complete |-> TRUE, broken |-> FALSE,
     width |-> 0, height |-> 0, rotation |-> 0]
NoPixels == [kind |-> "none", width |-> 0, height |-> 0]

DecodeIdle ==
    /\ dpc = "idle"
    /\ dimpl = "enhanced"
    /\ dsource = NoSource
    /\ dhandlers = {}
    /\ devent = "none"
    /\ dresult = NoPixels

InitDecode ==
    /\ dpc = "start"
    /\ dimpl \in {"enhanced", "server"}
    /\ dsource \in DecodeSources
    /\ dhandlers = {}
    /\ devent = "none"
    /\ dresult = NoPixels

\* getImageData up to its await: the promise is resolved at once for a
\* complete IMG element, else the handlers are installed and the call waits
BeginWait ==
    /\ dpc = "start"
    /\ IF ResolvesAtOnce(dsource)
       THEN dpc' = "resumed" /\ UNCHANGED dhandlers
       ELSE dpc' = "waiting" /\ dhandlers' = HandlersFor(dimpl, dsource)
    /\ UNCHANGED <<dimpl, dsource, devent, dresult>>
    /\ UNCHANGED notDecode

\* the browser fires `load`
DecodeLoads ==
    /\ dpc = "waiting"
    /\ devent = "none"
    /\ devent' = "load"
    /\ dpc' = IF "onload" \in dhandlers THEN "resumed" ELSE "waiting"
    /\ UNCHANGED <<dimpl, dsource, dhandlers, dresult>>
    /\ UNCHANGED notDecode

\* the browser fires `error`: without an onerror handler nothing resolves
\* the promise
DecodeFails ==
    /\ dpc = "waiting"
    /\ devent = "none"
    /\ devent' = "error"
    /\ dpc' = IF "onerror" \in dhandlers THEN "resumed" ELSE "waiting"
    /\ UNCHANGED <<dimpl, dsource, dhandlers, dresult>>
    /\ UNCHANGED notDecode

\* the statements after the await
ReadPixels ==
    /\ dpc = "resumed"
    /\ dresult' = DecodedData(dsource, devent = "error" \/ dsource.broken)
    /\ dpc' = "done"
    /\ UNCHANGED <<dimpl, dsource, dhandlers, devent>>
    /\ UNCHANGED notDecode

(***************************************************************************)
(* The two passes of preprocessImage over the pixels                       *)
(*   src/enhanced-ocr.js 166-211 (adaptive threshold), 221-256 (contrast)  *)
(*   The buffers hold one luminance per pixel: the pixels are gray and     *)
(*   opaque, so (r + g + b) / 3 is the level itself.                       *)
(***************************************************************************)
MaxPixels == 4
Levels == {0, 100, 120, 255}

\* the sizes of the buffers: width * height pixels
BufferSizes ==
    {s \in [width : 1..MaxPixels, height : 1..MaxPixels] :
        s.width * s.height <= MaxPixels}
Buffers(size) == [1..(size.width * size.height) -> Levels]

\* `Math.max(5, Math.floor(Math.min(width, height) / 20))`
BlockSize(width, height) ==
    Max(5, (IF width <= height THEN width ELSE height) \div 20)

\* the pixels of the local region of pixel (x, y), as indices of the buffer
Region(width, height, x, y) ==
    LET blockSize == BlockSize(width, height)
    IN  {ly * width + lx + 1 :
            lx \in Max(0, x - blockSize)..
                   ((IF width <= x + blockSize THEN width ELSE x + blockSize) - 1),
            ly \in Max(0, y - blockSize)..
                   ((IF height <= y + blockSize THEN height ELSE y + blockSize) - 1)}

RECURSIVE SumOf(_, _)
SumOf(buffer, region) ==
    IF region = {} THEN 0
    ELSE LET i == CHOOSE j \in region : TRUE
         IN  buffer[i] + SumOf(buffer, region \ {i})

\* `pixelAvg < (mean - C) ? 0 : 255` for the pixel at index i, its mean taken
\* over the buffer as it is now.  mean = sum / count with count pixels: the
\* comparison is that of the exact values, the levels being integers and
\* the quotient at least 1 / count away from any integer it does not equal
AdaptiveValue(buffer, width, height, i) ==
    LET region == Region(width, height, (i - 1) % width, (i - 1) \div width)
        count == Cardinality(region)
    IN  IF buffer[i] * count < SumOf(buffer, region) - Bias(width, height) * count
        THEN 0 ELSE 255

\* fillRect of rgba(255, 255, 255, 0.3) over the pixel: 0.7 * level + 76.5,
\* which the canvas rounds to a whole level one way or the other
Blend(level, up) ==
    LET tenths == 7 * level + 765
    IN  IF up /\ tenths % 10 # 0 THEN tenths \div 10 + 1 ELSE tenths \div 10

\* `avg > threshold ? 255 : 0`
ContrastValue(level, width, height, up) ==
    IF Blend(level, up) > FixedThreshold(width, height) THEN 255 ELSE 0

\* the contrast pass over a whole buffer
ContrastOf(buffer, width, height, up) ==
    [i \in DOMAIN buffer |-> ContrastValue(buffer[i], width, height, up)]

ThresholdIdle ==
    /\ bpc = "idle"
    /\ bsize = [width |-> 1, height |-> 1]
    /\ pixels = <<>>
    /\ origData = <<>>
    /\ bpos = 0
    /\ dataCopy = <<>>

\* lines 159-170: the pixels read, and cloned
InitThreshold ==
    /\ bpc = "adaptive"
    /\ bsize \in BufferSizes
    /\ pixels \in Buffers(bsize)
    /\ origData = pixels
    /\ bpos = 1
    /\ dataCopy = <<>>

\* one turn of the loop of lines 180-206: the pixel is rewritten in `data`
AdaptivePixel ==
    /\ bpc = "adaptive"
    /\ bpos <= Len(pixels)
    /\ pixels' = [pixels EXCEPT ![bpos] =
                    AdaptiveValue(pixels, bsize.width, bsize.height, bpos)]
    /\ bpos' = bpos + 1
    /\ UNCHANGED <<bpc, bsize, origData, dataCopy>>
    /\ UNCHANGED notThreshold

\* lines 221-256: the contrast variant, from the clone
ContrastPass ==
    /\ bpc = "adaptive"
    /\ bpos > Len(pixels)
    /\ \E up \in BOOLEAN :
        dataCopy' = ContrastOf(origData, bsize.width, bsize.height, up)
    /\ bpc' = "done"
    /\ UNCHANGED <<bsize, pixels, origData, bpos>>
    /\ UNCHANGED notThreshold

(***************************************************************************)
(* The density analysis of detectIngredientsSection                        *)
(*   src/enhanced-ocr.js 1187-1252, reached when the quick recognition     *)
(*   found no word "ingredient".  The image is no larger than 800 by 800:  *)
(*   scale is 1 and the canvas has the sizes of the image.                 *)
(***************************************************************************)
MaxHeight == 12
Densities == {0, 2, 5}

\* `Math.floor(height * 0.4)`: the binary64 nearest to 0.4 lies above 0.4, so
\* the product is never rounded below a whole 2 * height / 5
StartY(height) == (2 * height) \div 5

\* rowDensity as lines 1198-1207 leave it: one count of dark pixels for each
\* row from startY on (index 1 is row startY)
Profiles(height) == [1..(height - StartY(height)) -> Densities]

\* lines 1210-1218: the greatest density and the first row that has it
RECURSIVE MaxDensityFrom(_, _, _)
MaxDensityFrom(density, i, best) ==
    IF i > Len(density) THEN best
    ELSE MaxDensityFrom(density, i + 1,
            IF density[i] > best.maxDensity
            THEN [maxDensity |-> density[i], index |-> i]
            ELSE best)
MaxDensity(density) == MaxDensityFrom(density, 1, [maxDensity |-> 0, index |-> 1])

\* `rowDensity[y - startY] < maxDensity * 0.3`; the densities are whole and
\* 3 * maxDensity / 10 is not, or is 0, so rounding decides nothing
IsDrop(density, i, maxDensity) == 10 * density[i] < 3 * maxDensity

\* lines 1225-1230, y from maxDensityRow down to startY + 1; rows are counted
\* from startY: row startY + i - 1 has index i
RECURSIVE StartRowFrom(_, _, _)
StartRowFrom(density, i, found) ==
    IF i <= 1 THEN found.index
    ELSE IF IsDrop(density, i, found.maxDensity) THEN i + 5
         ELSE StartRowFrom(density, i - 1, found)

\* lines 1233-1238, y from maxDensityRow up to height - 1
RECURSIVE EndRowFrom(_, _, _)
EndRowFrom(density, i, found) ==
    IF i > Len(density) THEN found.index
    ELSE IF IsDrop(density, i, found.maxDensity) THEN i - 5
         ELSE EndRowFrom(density, i + 1, found)

\* lines 1221-1246: startRow, endRow and the region returned (x is 0, the
\* width that of the image)
DensityRegion(height, density) ==
    LET Box(startRow, endRow) ==
            [startRow |-> startRow, endRow |-> endRow,
             y |-> startRow, height |-> endRow - startRow]
        Rows(found) ==
            Box(StartY(height) + StartRowFrom(density, found.index, found) - 1,
                StartY(height) + EndRowFrom(density, found.index, found) - 1)
    IN  Rows(MaxDensity(density))

NoRegion == [startRow |-> 0, endRow |-> 0, y |-> 0, height |-> 0]

RegionIdle ==
    /\ gpc = "idle"
    /\ gheight = 0
    /\ rowDensity = <<>>
    /\ bbox = NoRegion

\* the canvas read and its rows counted
InitRegion ==
    /\ gpc = "counted"
    /\ gheight \in 1..MaxHeight
    /\ rowDensity \in Profiles(gheight)
    /\ bbox = NoRegion

\* the rest of the density analysis
DetectByDensity ==
    /\ gpc = "counted"
    /\ bbox' = DensityRegion(gheight, rowDensity)
    /\ gpc' = "done"
    /\ UNCHANGED <<gheight, rowDensity>>
    /\ UNCHANGED notRegion

(***************************************************************************)
(* Specifications                                                          *)
(***************************************************************************)
SafetyInit ==
    InitSafety /\ FusionIdle /\ PipelineIdle /\ NormalizerIdle /\ ImageIdle
    /\ ServerIdle /\ FilterIdle /\ DecodeIdle /\ ThresholdIdle
    /\ RegionIdle
SafetyNext == Analyze
SpecSafety == SafetyInit /\ [][SafetyNext]_vars

FusionInit ==
    SafetyIdle /\ InitFusion /\ PipelineIdle /\ NormalizerIdle /\ ImageIdle
    /\ ServerIdle /\ FilterIdle /\ DecodeIdle /\ ThresholdIdle
    /\ RegionIdle
FusionNext == AddResult \/ AddResultNoText \/ Combine \/ CombineServer
SpecFusion == FusionInit /\ [][FusionNext]_vars

UnionInit ==
    SafetyIdle /\ InitUnion /\ PipelineIdle /\ NormalizerIdle /\ ImageIdle
    /\ ServerIdle /\ FilterIdle /\ DecodeIdle /\ ThresholdIdle
    /\ RegionIdle
UnionNext == AddPhrase \/ Combine
SpecUnion == UnionInit /\ [][UnionNext]_vars

PipelineInit ==
    SafetyIdle /\ FusionIdle /\ InitPipeline /\ NormalizerIdle /\ ImageIdle
    /\ ServerIdle /\ FilterIdle /\ DecodeIdle /\ ThresholdIdle
    /\ RegionIdle
PipelineNext ==
    \/ PassSucceeds
    \/ PassFailsCaught
    \/ PassFailsUncaught
    \/ SelectBest
    \/ ReturnBest
    \/ SelectByKeyword
    \/ ReturnFoodLabel
SpecPipeline == PipelineInit /\ [][PipelineNext]_vars

NormalizerInit ==
    SafetyIdle /\ FusionIdle /\ PipelineIdle /\ InitNormalizer /\ ImageIdle
    /\ ServerIdle /\ FilterIdle /\ DecodeIdle /\ ThresholdIdle
    /\ RegionIdle
NormalizerNext == AppendToken \/ TakeLabelText \/ TakeMissing \/ Call \/ CallAgain
SpecNormalizer == NormalizerInit /\ [][NormalizerNext]_vars

ImageInit ==
    SafetyIdle /\ FusionIdle /\ PipelineIdle /\ NormalizerIdle /\ InitImage
    /\ ServerIdle /\ FilterIdle /\ DecodeIdle /\ ThresholdIdle
    /\ RegionIdle
ImageNext == CorrectOrientation \/ Preprocess \/ ScaleSimplified
SpecImage == ImageInit /\ [][ImageNext]_vars

ServerInit ==
    SafetyIdle /\ FusionIdle /\ PipelineIdle /\ NormalizerIdle /\ ImageIdle
    /\ InitServer /\ FilterIdle /\ DecodeIdle /\ ThresholdIdle
    /\ RegionIdle
ServerNext == SendImage \/ FetchSettles \/ JsonSettles
SpecServer == ServerInit /\ [][ServerNext]_vars

FilterInit ==
    SafetyIdle /\ FusionIdle /\ PipelineIdle /\ NormalizerIdle /\ ImageIdle
    /\ ServerIdle /\ InitFilter /\ DecodeIdle /\ ThresholdIdle
    /\ RegionIdle
FilterNext == PreprocessCall
SpecFilter == FilterInit /\ [][FilterNext]_vars

DecodeInit ==
    SafetyIdle /\ FusionIdle /\ PipelineIdle /\ NormalizerIdle /\ ImageIdle
    /\ ServerIdle /\ FilterIdle /\ InitDecode /\ ThresholdIdle
    /\ RegionIdle
DecodeNext == BeginWait \/ DecodeLoads \/ DecodeFails \/ ReadPixels
\* the browser delivers the events of an image and resumes a resolved await
SpecDecode == DecodeInit /\ [][DecodeNext]_vars /\ WF_vars(DecodeNext)

ThresholdInit ==
    SafetyIdle /\ FusionIdle /\ PipelineIdle /\ NormalizerIdle /\ ImageIdle
    /\ ServerIdle /\ FilterIdle /\ DecodeIdle /\ InitThreshold
    /\ RegionIdle
ThresholdNext == AdaptivePixel \/ ContrastPass
SpecThreshold == ThresholdInit /\ [][ThresholdNext]_vars

RegionInit ==
    SafetyIdle /\ FusionIdle /\ PipelineIdle /\ NormalizerIdle /\ ImageIdle
    /\ ServerIdle /\ FilterIdle /\ DecodeIdle /\ ThresholdIdle
    /\ InitRegion
RegionNext == DetectByDensity
SpecRegion == RegionInit /\ [][RegionNext]_vars

Init ==
    SafetyInit \/ FusionInit \/ UnionInit \/ PipelineInit
    \/ NormalizerInit \/ ImageInit \/ ServerInit \/ FilterInit
    \/ DecodeInit \/ ThresholdInit \/ RegionInit
Next ==
    SafetyNext \/ FusionNext \/ UnionNext \/ PipelineNext
    \/ NormalizerNext \/ ImageNext \/ ServerNext \/ FilterNext
    \/ DecodeNext \/ ThresholdNext \/ RegionNext
Spec == Init /\ [][Next]_vars

(***************************************************************************)
(* Properties of analyzeIngredientsForSafety, checked under SpecSafety     *)
(***************************************************************************)
\* the list handed in, [] when it is absent
FlagsOf(d) == IF d.flagged_ingredients.present THEN d.flagged_ingredients.items ELSE <<>>

\* some flagged ingredient of d has confidence > 0.5
AnyAboveHalf(d) == \E k \in 1..Len(FlagsOf(d)) : FlagsOf(d)[k].confidence * 2 > 10

UnsafePath(d) == AnyAboveHalf(d)
CautionPath(d) == FlagsOf(d) # <<>> /\ ~AnyAboveHalf(d)
ClearPath(d) == FlagsOf(d) = <<>>

SuffixIf(b) == IF b THEN CrossContaminationSuffix ELSE ""

\* C1: whatever the upstream verdict, message and flagged list, when some
\* flagged ingredient has confidence > 0.5 the returned record is never
\* gluten free, its message starts with "Potentially unsafe" and it carries
\* no cross-contamination suffix.
C1_UnsafeNeverGlutenFree ==
    (spc = "analyzed" /\ UnsafePath(upstream)) =>
        /\ data.is_gluten_free = FALSE
        /\ StartsWith(data.message, "Potentially unsafe")
        /\ ~Includes(data.message, CrossContaminationSuffix)

C1_Witness ==
    /\ spc = "analyzed"
    /\ upstream.is_gluten_free
    /\ Includes(upstream.message, CrossContaminationSuffix)
    /\ UnsafePath(upstream)
    /\ \E k \in 1..Len(FlagsOf(upstream)) : FlagsOf(upstream)[k].confidence = 6
    /\ ~data.is_gluten_free

\* C2: when the flagged list is non-empty and every confidence is <= 0.5
\* (0.5 included), the verdict is the upstream verdict and the message is the
\* caution message, followed by the suffix only when the verdict is true.
C2_CautionPath ==
    (spc = "analyzed" /\ CautionPath(upstream)) =>
        /\ data.is_gluten_free = upstream.is_gluten_free
        /\ data.message = CautionMessage \o SuffixIf(upstream.is_gluten_free)

C2_Witness ==
    /\ spc = "analyzed"
    /\ CautionPath(upstream)
    /\ \E k \in 1..Len(FlagsOf(upstream)) : FlagsOf(upstream)[k].confidence = 5
    /\ data.is_gluten_free
    /\ data.message = CautionMessage \o CrossContaminationSuffix

\* C3: with no flagged ingredients (list empty or absent) the verdict is the
\* upstream verdict and the message is the upstream message, plus the suffix
\* when the verdict is gluten free; on every path the flagged list is returned
\* as it was handed in.
C3_ClearPathFrame ==
    spc = "analyzed" =>
        /\ data.flagged_ingredients = upstream.flagged_ingredients
        /\ ClearPath(upstream) =>
            /\ data.is_gluten_free = upstream.is_gluten_free
            /\ data.message = upstream.message \o SuffixIf(upstream.is_gluten_free)

C3_Witness ==
    /\ spc = "analyzed"
    /\ upstream.flagged_ingredients = List(<<>>)
    /\ upstream.message = "No gluten ingredients found."
    /\ ~upstream.is_gluten_free
    /\ data = upstream

\* C4: on the Unsafe, Caution and Clear paths alike, the message is the path's
\* message followed by the cross-contamination suffix exactly when the final
\* (possibly overridden) verdict is true, and by nothing when it is false.
PathMessage(d) ==
    IF UnsafePath(d) THEN UnsafeMessage
    ELSE IF CautionPath(d) THEN CautionMessage
    ELSE d.message

C4_SuffixIffFinalVerdict ==
    spc = "analyzed" =>
        data.message = PathMessage(upstream) \o SuffixIf(data.is_gluten_free)

C4_Witness ==
    /\ spc = "analyzed"
    /\ UnsafePath(upstream)
    /\ upstream.is_gluten_free
    /\ data.message = UnsafeMessage

(***************************************************************************)
(* Properties of combineOcrResults, checked under SpecFusion               *)
(***************************************************************************)
\* the text of a result, a missing text read as the empty string
TextOrEmpty(r) == IF "text" \in DOMAIN r THEN r.text ELSE ""

\* the first of the longest texts of rs
FirstLongest(rs) ==
    LET i == CHOOSE j \in 1..Len(rs) :
                /\ \A k \in 1..Len(rs) : Len(TextOrEmpty(rs[k])) <= Len(TextOrEmpty(rs[j]))
                /\ \A k \in 1..(j - 1) : Len(TextOrEmpty(rs[k])) < Len(TextOrEmpty(rs[j]))
    IN  TextOrEmpty(rs[i])

\* the lowercased words longer than two characters of any text of rs
InputWords(rs) == UNION {Range(WordsOf(TextOrEmpty(rs[i]))) : i \in 1..Len(rs)}

\* s is a (possibly empty) run of " " + word, each word taken from ws
RECURSIVE OnlyWordsAppended(_, _)
OnlyWordsAppended(s, ws) ==
    \/ s = ""
    \/ \E w \in ws :
        /\ StartsWith(s, " " \o w)
        /\ OnlyWordsAppended(SubSeq(s, Len(w) + 2, Len(s)), ws)

\* C8: for every non-empty sequence of results the fused text starts with the
\* longest input text verbatim, and what follows it is only appended words.
C8_UnionKeepsLongest ==
    (fpc = "done" /\ ~fuseThrew) =>
        LET base == FirstLongest(fuseInput) IN
        /\ StartsWith(fused, base)
        /\ OnlyWordsAppended(SubSeq(fused, Len(base) + 1, Len(fused)), InputWords(fuseInput))

C8_Witness ==
    /\ fpc = "done"
    /\ Len(fuseInput) = 2
    /\ TextOrEmpty(fuseInput[1]) = "aBa"
    /\ TextOrEmpty(fuseInput[2]) = "BBB"
    /\ fused = "aBa bbb"

\* C9: fusing a one-element sequence returns that element's text unchanged,
\* with nothing appended.
C9_SingleResultUnchanged ==
    (fpc = "done" /\ Len(fuseInput) = 1 /\ "text" \in DOMAIN fuseInput[1]) =>
        fused = fuseInput[1].text

C9_Witness ==
    /\ fpc = "done"
    /\ Len(fuseInput) = 1
    /\ TextOrEmpty(fuseInput[1]) = "aBa BB"
    /\ fused = "aBa BB"

\* the results of rs that carry a non-empty text
WithText(rs) == SelectSeq(rs, LAMBDA r : TextOrEmpty(r) # "")

\* C13: fusion never throws when a result has an empty, missing or undefined
\* text: such a result counts as the empty string, contributes no words, and
\* the fusion of the remaining results is returned.
C13_MissingTextTolerated ==
    (fpc = "done" /\ \E i \in 1..Len(fuseInput) : TextOrEmpty(fuseInput[i]) = "") =>
        /\ ~fuseThrew
        /\ fused = combineOcrResults(WithText(fuseInput))

\* the combineOcrResults of enhanced-ocr.js does tolerate such results
MissingTextToleratedWhereGuarded ==
    (fpc = "done" /\ fuseImpl = "enhanced"
        /\ \E i \in 1..Len(fuseInput) : TextOrEmpty(fuseInput[i]) = "") =>
        /\ ~fuseThrew
        /\ fused = combineOcrResults(WithText(fuseInput))

\* the one of server-ocr.js tolerates an empty text, and throws on a missing one
ServerThrowsOnMissingTextOnly ==
    (fpc = "done" /\ fuseImpl = "server") =>
        /\ fuseThrew <=> \E i \in 1..Len(fuseInput) : ~("text" \in DOMAIN fuseInput[i])
        /\ ~fuseThrew => fused = combineOcrResults(WithText(fuseInput))

(***************************************************************************)
(* Properties of the text normalisers, checked under SpecNormalizer        *)
(***************************************************************************)
\* C14: normalisation is idempotent: for every text t, postprocessText
\* followed by enhanceIngredientText returns a string, and normalising that
\* string again returns the same string.
C14_NormalizeIdempotent ==
    (nfun = "normalize" /\ ninput.type = "string" /\ npc \in {"called", "again"}) =>
        /\ ~nfirst.threw
        /\ npc = "again" => nsecond = nfirst

\* the label words the claims speak of, and where one of them is followed by
\* a colon, a period or whitespace
LabelWords == {"ingredients", "lngredients"}
LabelStarts(t) ==
    LET ls == ToLowerCase(t)
    IN  {i \in 1..Len(t) : /\ \E w \in LabelWords : StartsAt(ls, i, w)
                           /\ IsSeparator(CharAt(t, i + 11))}
HasLabel(t) == LabelStarts(t) # {}

\* the text after the first such match (the separators are part of the
\* match), nothing when there is no match
AfterFirstLabel(t) ==
    IF LabelStarts(t) = {} THEN ""
    ELSE SubSeq(t, SkipSeparators(t, Least(LabelStarts(t)) + 11), Len(t))

\* "Ingredients: " followed by the trimmed text after the first label of t,
\* the corrections applied
IsolatedForm(t) == "Ingredients: " \o Trim(AfterFirstLabel(CorrectionChain(t)))

\* the words that open a nutrition block
NutritionWords == {"nutrition", "serving", "calories"}
NoNutritionWords(t) == \A w \in NutritionWords : ~Includes(ToLowerCase(t), w)

PostprocessCalled ==
    nfun = "postprocessText" /\ ninput.type = "string" /\ npc \in {"called", "again"}

\* C15 as stated: for any text in which "ingredients" or "lngredients" is
\* followed by a colon, a period or whitespace, postprocessText returns
\* "Ingredients: " followed by the trimmed text after the first such match,
\* with the OCR-confusion corrections applied.
C15_IsolationOnEveryLabelledText ==
    (PostprocessCalled /\ HasLabel(ninput.str)) =>
        nfirst = Returned(Str(IsolatedForm(ninput.str)))

\* C15, amended: the same, for a text that has something other than
\* separators after the label and none of the words that open a nutrition
\* block; and "lngredients: c0rn starch, g1uten, sall" becomes
\* "Ingredients: corn starch, gluten, salt".
C15_CorrectionThenIsolation ==
    PostprocessCalled =>
        /\ (/\ HasLabel(ninput.str)
            /\ Trim(AfterFirstLabel(ninput.str)) # ""
            /\ NoNutritionWords(ninput.str)) =>
                nfirst = Returned(Str(IsolatedForm(ninput.str)))
        /\ ninput.str = "lngredients: c0rn starch, g1uten, sall" =>
                nfirst = Returned(Str("Ingredients: corn starch, gluten, salt"))

C15_Witness ==
    /\ npc = "called"
    /\ nfun = "postprocessText"
    /\ ninput = Str("lngredients: c0rn starch, g1uten, sall")
    /\ nfirst = Returned(Str("Ingredients: corn starch, gluten, salt"))

\* a case-insensitive match of "ingredients" followed by a colon, a period or
\* whitespace
HasIngredientsLabel(t) ==
    LET ls == ToLowerCase(t)
    IN  \E i \in 1..Len(t) : StartsAt(ls, i, "ingredients") /\ IsSeparator(CharAt(t, i + 11))

\* C16: the normaliser never fabricates an ingredients prefix: for a text
\* with no case-insensitive match of "ingredients" followed by a colon, a
\* period or whitespace, postprocessText followed by enhanceIngredientText
\* returns a text that does not begin with an "Ingredients:" label.
C16_NoFabricatedPrefix ==
    (/\ nfun = "normalize" /\ ninput.type = "string" /\ npc \in {"called", "again"}
     /\ ~HasIngredientsLabel(ninput.str)) =>
        /\ ~nfirst.threw
        /\ ~StartsWith(ToLowerCase(nfirst.value.str), "ingredients:")

\* "", whitespace only, null or undefined
Blank(v) == v.type \in {"undefined", "null"} \/ Trim(v.str) = ""

NormalizationSteps ==
    {"postprocessText", "postprocessTextServer", "enhanceIngredientText", "cleanFoodLabelText"}

\* C17: every normalisation step (postprocessText, enhanceIngredientText,
\* cleanFoodLabelText) called on "", on whitespace only, on null or on
\* undefined does not raise and returns the empty string.
C17_BlankInputGivesEmptyString ==
    (npc \in {"called", "again"} /\ nfun \in NormalizationSteps /\ Blank(ninput)) =>
        nfirst = Returned(Str(""))

\* what does hold: postprocessText of enhanced-ocr.js returns "" on every
\* such input; the other steps return "" on "", and cleanFoodLabelText also
\* on null and undefined
BlankInputWhereTolerated ==
    (npc \in {"called", "again"} /\ Blank(ninput)) =>
        /\ nfun = "postprocessText" => nfirst = Returned(Str(""))
        /\ (nfun \in NormalizationSteps /\ ninput = Str("")) => nfirst = Returned(Str(""))
        /\ (nfun = "cleanFoodLabelText" /\ ninput.type # "string") =>
                nfirst = Returned(Str(""))
        /\ (nfun = "cleanFoodLabelText" /\ ninput.type = "string" /\ ninput.str # "") =>
                nfirst = Threw(ErrorValue("SyntaxError"))
        /\ (nfun = "enhanceIngredientText" /\ ninput # Str("")) => nfirst = Returned(ninput)
        /\ (nfun = "postprocessTextServer" /\ ninput.type # "string") =>
                nfirst = Threw(ErrorValue("TypeError"))
        /\ (nfun = "postprocessTextServer" /\ ninput.type = "string") =>
                nfirst = Returned(Str(""))

\* the text of the first clause of t opened by one of heads: what follows the
\* head and its separators, up to the next period or the end of the text
ClauseText(t, heads) ==
    LET p == SkipSeparators(t, heads[Least(DOMAIN heads)])
    IN  Trim(SubSeq(t, p, FindChar(t, p, ".") - 1))

HasClause(t) == DOMAIN ContainsHeads(t) # {} \/ DOMAIN MayContainHeads(t) # {}

\* r is a returned text that holds, after its main body, a line of its own
\* for each clause of t
ClausesRelocated(t, r) ==
    /\ ~r.threw
    /\ DOMAIN ContainsHeads(t) # {} =>
            Includes(r.value.str, "\n\nCONTAINS: " \o ClauseText(t, ContainsHeads(t)))
    /\ DOMAIN MayContainHeads(t) # {} =>
            Includes(r.value.str, "\n\nMAY CONTAIN: " \o ClauseText(t, MayContainHeads(t)))

\* C18: when the text has a "contains" clause (a "may contain" clause),
\* enhanceIngredientText returns a text that has, after the main body, a
\* separate line "CONTAINS: <clause>" ("MAY CONTAIN: <clause>") with the
\* clause text up to its period or the end of the text; with both clauses
\* both lines are there.
C18_ClausesRelocated ==
    (/\ nfun = "enhanceIngredientText" /\ npc \in {"called", "again"}
     /\ ninput.type = "string" /\ HasClause(ninput.str)) =>
        ClausesRelocated(ninput.str, nfirst)

\* the copy of server-ocr.js, which has no table key that fails to compile,
\* does relocate the clauses of the label texts
ServerRelocatesClauses ==
    (/\ nfun = "enhanceIngredientTextServer" /\ npc \in {"called", "again"}
     /\ ninput.type = "string" /\ HasClause(ninput.str)) =>
        ClausesRelocated(ninput.str, nfirst)

(***************************************************************************)
(* Properties of the multi-pass pipelines, checked under SpecPipeline      *)
(***************************************************************************)
\* C5: in every multi-pass pipeline a failing pass is caught and left out:
\* every pass still runs, the successful results are kept in pass order, and
\* the scan returns a result whenever at least one pass succeeded.
C5_PassFailureIsolated ==
    pc = "done" =>
        /\ Len(passLog) = NumPasses(variant)
        /\ results = Succeeded(passLog)
        /\ Succeeded(passLog) # <<>> => outcome = "returned"

\* C6: when every recognition pass of a scan failed, the caller gets an error
\* and no normal {text, confidence} result.
C6_AllPassesFailedIsError ==
    (pc = "done" /\ Succeeded(passLog) = <<>>) => outcome = "thrown"

\* C7: every returned confidence lies in 0..100 and is the greatest confidence
\* among the passes that contributed, whatever passes succeeded or failed,
\* zero successful passes included.
C7_ConfidenceInRangeAndMax ==
    (pc = "done" /\ outcome = "returned") =>
        /\ retConfidence \in 0..100
        /\ \A i \in 1..Len(results) : results[i].confidence <= retConfidence
        /\ results # <<>> => \E i \in 1..Len(results) : results[i].confidence = retConfidence

C7_Witness ==
    /\ pc = "done"
    /\ outcome = "returned"
    /\ Len(results) = 3
    /\ results[1].confidence = 85
    /\ results[2].confidence = 100
    /\ results[3].confidence = 0
    /\ retConfidence = 100

\* the first result of rs with the greatest confidence
FirstHighest(rs) ==
    LET i == CHOOSE j \in 1..Len(rs) :
                /\ \A k \in 1..Len(rs) : rs[k].confidence <= rs[j].confidence
                /\ \A k \in 1..(j - 1) : rs[k].confidence < rs[j].confidence
    IN  rs[i]

\* C10: confidence-mode selection picks the text of the result with the
\* highest confidence, the first one among ties, for every non-empty sequence
\* of results with confidences in 0..100 (all equal and all 0 included).
C10_BestIsFirstHighest ==
    (pc \in {"return", "done"} /\ variant \in {"enhanced", "server"}
        /\ outcome # "thrown" /\ results # <<>>) =>
        bestText = FirstHighest(results).text

\* the texts of the successful passes, in pass order
PassTextsOf(rs) == [i \in 1..Len(rs) |-> rs[i].text]

\* C11: in performFoodLabelOCR, whenever at least one pass text contains
\* "ingredients" (in any letter case) the selected text contains it too,
\* whatever the order of the passes and however long the texts are that match
\* culinary keywords only.
C11_IngredientsTextWins ==
    (pc \in {"return", "done"} /\ variant = "foodLabel"
        /\ \E i \in 1..Len(results) : MatchesIngredients(results[i].text)) =>
        MatchesIngredients(bestText)

\* no pass text contains "ingredients" or a culinary keyword
NoTextMatches(rs) ==
    \A i \in 1..Len(rs) :
        /\ ~Includes(ToLowerCase(rs[i].text), "ingredients")
        /\ \A k \in {"flour", "bran", "starch", "gum", "sugar", "salt", "water"} :
                ~Includes(ToLowerCase(rs[i].text), k)

\* C12: when no pass text contains "ingredients" or a culinary keyword and at
\* least one pass succeeded, the text performFoodLabelOCR selects is exactly
\* combineOcrResults over all the successful results.
C12_FallbackIsUnion ==
    (pc \in {"return", "done"} /\ variant = "foodLabel"
        /\ results # <<>> /\ NoTextMatches(results)) =>
        bestText = combineOcrResults(Succeeded(passLog))

C12_Witness ==
    /\ pc = "done"
    /\ variant = "foodLabel"
    /\ Len(passLog) = 3
    /\ passLog[2].status = "failed"
    /\ PassTextsOf(results) = <<"abc", "xyz def">>
    /\ bestText = "xyz def abc"

(***************************************************************************)
(* What does hold of the pipelines where C5, C6 and C10 fail               *)
(***************************************************************************)
\* the two pipelines of enhanced-ocr.js, which wrap each pass in try/catch,
\* run every pass and keep the successful results in order
PassFailureIsolatedWhereCaught ==
    (pc = "done" /\ CatchesPassErrors(variant)) =>
        /\ Len(passLog) = NumPasses(variant)
        /\ results = Succeeded(passLog)

\* they return only the empty text: every scan whose selected text is not
\* empty ends in the error the text normalisers throw
ReturnsOnlyBlankWhereCaught ==
    (pc = "done" /\ CatchesPassErrors(variant)) =>
        /\ outcome = "returned" => retText = ""
        /\ outcome = "thrown" <=>
                (IF variant = "foodLabel" THEN bestText ELSE combinedText) # ""

\* the pipeline of server-ocr.js returns whenever all its passes succeeded
ServerReturnsWhenNoPassFails ==
    (pc = "done" /\ variant = "server" /\ Len(results) = NumPasses(variant)) =>
        outcome = "returned"

\* with at least one successful pass the returned confidence is in range and
\* is the greatest confidence among the results
ConfidenceIsMaxOfSomeResult ==
    (pc = "done" /\ outcome = "returned" /\ results # <<>>) =>
        /\ retConfidence \in 0..100
        /\ retConfidence = FirstHighest(results).confidence

\* when the highest confidence is positive, the first result that has it is
\* the one picked
BestIsFirstHighestWhenPositive ==
    (pc \in {"return", "done"} /\ variant \in {"enhanced", "server"}
        /\ outcome # "thrown" /\ results # <<>>
        /\ FirstHighest(results).confidence > 0) =>
        bestText = FirstHighest(results).text

(***************************************************************************)
(* Properties of the image steps, checked under SpecImage                  *)
(***************************************************************************)
\* the image the downscaling code was given and the limit it enforces
ScaledSource == IF iimpl = "enhanced" THEN orientedImage ELSE imageElement
Limit == IF iimpl = "enhanced" THEN MAX_SIZE ELSE MAX_SIZE_SIMPLIFIED
HasScaled == ipc \in {"preprocessed", "done"} /\ ScaledSource.tagName # "CANVAS"

Abs(n) == IF n < 0 THEN -n ELSE n

\* the ratio of the sides w2 x h2 is that of w x h up to one pixel of
\* rounding in either side
SameAspect(w, h, w2, h2) == Abs(w2 * h - h2 * w) <= Max(w, h)

\* C19: an image with a side above MAX is scaled to sides of which the
\* larger is exactly MAX and none is above MAX, in the ratio of the source up
\* to rounding; an image within MAX keeps its sizes; 2400 x 1800 under MAX =
\* 1500 becomes 1500 x 1125.
C19_Downscaling ==
    HasScaled =>
        LET w == ScaledSource.width
            h == ScaledSource.height
        IN  /\ Max(w, h) > Limit =>
                /\ Max(scaled.canvasWidth, scaled.canvasHeight) = Limit
                /\ scaled.canvasWidth <= Limit
                /\ scaled.canvasHeight <= Limit
                /\ SameAspect(w, h, scaled.canvasWidth, scaled.canvasHeight)
            /\ Max(w, h) <= Limit =>
                /\ scaled.canvasWidth = w
                /\ scaled.canvasHeight = h
            /\ (w = 2400 /\ h = 1800 /\ Limit = 1500) =>
                /\ scaled.canvasWidth = 1500
                /\ scaled.canvasHeight = 1125

\* what the downscaling does give: sides not above MAX, the larger at most
\* one pixel short of MAX, the ratio kept up to rounding; unchanged sizes
\* within MAX; and 1500 x 1125 for 2400 x 1800
DownscaledWithinOnePixel ==
    HasScaled =>
        LET w == ScaledSource.width
            h == ScaledSource.height
        IN  /\ Max(w, h) > Limit =>
                /\ Max(scaled.canvasWidth, scaled.canvasHeight) \in {Limit - 1, Limit}
                /\ SameAspect(w, h, scaled.canvasWidth, scaled.canvasHeight)
            /\ Max(w, h) <= Limit =>
                /\ scaled.canvasWidth = w
                /\ scaled.canvasHeight = h
                /\ scaled.width = WholeSize(w)
                /\ scaled.height = WholeSize(h)
            /\ (w = 2400 /\ h = 1800 /\ Limit = 1500) =>
                /\ scaled.width = WholeSize(1500)
                /\ scaled.height = WholeSize(1125)

\* a canvas handed to preprocessImage is never scaled
CanvasKeepsItsSizes ==
    (ipc = "preprocessed" /\ orientedImage.tagName = "CANVAS") =>
        /\ scaled.canvasWidth = orientedImage.width
        /\ scaled.canvasHeight = orientedImage.height

\* C20: whatever step of correctImageOrientation raises, the function
\* returns the image it was given and the scan goes on to preprocessing
\* instead of ending in the error; it returns the image it was given as well
\* when no orientation is reported or the angle reported is 0.
C20_OrientationFailureNonFatal ==
    /\ ipc # "thrown"
    /\ ipc \in {"oriented", "preprocessed"} =>
        /\ detection.fault # "none" => orientedImage = imageElement
        /\ ~detection.orientation => orientedImage = imageElement
        /\ detection.angle = 0 => orientedImage = imageElement

\* the detect call has raised on an image above the limit, and the image
\* handed in has been preprocessed
C20_Witness ==
    /\ ipc = "preprocessed"
    /\ detection.fault = "detect"
    /\ orientedImage = imageElement
    /\ imageElement.width = 2400
    /\ scaled.canvasWidth = 1500

\* a rotation happens exactly when no step raised and an angle other than 0
\* is reported
RotatesOnlyWhenDetected ==
    ipc \in {"oriented", "preprocessed"} =>
        (orientedImage # imageElement <=>
            (detection.fault = "none" /\ NeedsRotation(detection)))

(***************************************************************************)
(* Properties of performServerOCR, checked under SpecServer                *)
(***************************************************************************)
\* the request did not end in a parsed object whose success is true
RemoteFailure ==
    \/ reply.failed # "none"
    \/ reply.value.kind = "null"
    \/ reply.value.success # "true"

\* C21: when the server answers success:false or the transport fails (fetch
\* or the parsing of the body rejects), performServerOCR ends in one error
\* and returns no text; it returns {text, confidence} only when the answer
\* has success:true, and then with the text and confidence of the answer.
C21_RemoteFailureIsOneError ==
    xpc = "done" =>
        /\ xout.kind \in {"thrown", "returned"}
        /\ RemoteFailure => (xout.kind = "thrown" /\ xout.text = "")
        /\ xout.kind = "returned" =>
            /\ reply.failed = "none"
            /\ reply.value.kind = "object"
            /\ reply.value.success = "true"
            /\ xout.text = reply.value.text
            /\ xout.confidence = reply.value.confidence

\* the server answered success:false with a text in the body, and the call
\* ended in the error the server named
C21_Witness ==
    /\ xpc = "done"
    /\ reply.failed = "none"
    /\ reply.value.kind = "object"
    /\ reply.value.success = "false"
    /\ reply.value.text # ""
    /\ reply.value.error # ""
    /\ xout = Rejected(reply.value.error)

\* the error of a success:false answer carries the message the server sent,
\* the generic one when it sent none
RemoteMessageSurfaced ==
    (xpc = "done" /\ reply.failed = "none" /\ reply.value.kind = "object"
        /\ reply.value.success # "true") =>
        xout.message = (IF reply.value.error # "" THEN reply.value.error
                        ELSE "Server error processing image")

\* C22: after a scan that failed, the progress indicators the scan set are
\* back in the state they had before it: the scanning message is hidden, and
\* the progress text and the width of the progress bar are what they were.
C22_ProgressResetOnFailure ==
    (xpc = "done" /\ xout.kind = "thrown") =>
        /\ ui.display = "none"
        /\ ui.text = uiBefore.text
        /\ ui.width = uiBefore.width

\* what every failure path does reset: the scanning message is hidden
ScanningMessageHiddenWhenDone == xpc = "done" => ui.display = "none"

\* the progress text and the bar keep what the scan wrote, on every path
ProgressKeptAsWritten ==
    xpc = "done" =>
        /\ ui.text = "Processing image on server..."
        /\ ui.width = "50%"

(***************************************************************************)
(* Properties of the filter banks, checked under SpecFilter                *)
(***************************************************************************)
\* every element of the sequence a is an element of b
AllIn(a, b) == \A i \in 1..Len(a) : \E j \in 1..Len(b) : b[j] = a[i]

\* C23: when the making of one variant fails, preprocessImage and
\* preprocessFoodLabel still return a sequence that is not empty and holds
\* the variants that were made.
C23_AtLeastOneVariant ==
    (kpc = "done" /\ kfault.at = "variant") =>
        /\ kout.kind = "returned"
        /\ kout.variants # <<>>
        /\ AllIn(kproduced, kout.variants)

\* what the filter banks do: all the variants in order when nothing failed,
\* an error and no variant otherwise
AllVariantsOrError ==
    kpc = "done" =>
        IF kfault.at = "none"
        THEN /\ kout.kind = "returned"
             /\ Len(kout.variants) = IF kfun = "preprocessImage" THEN 2 ELSE 3
        ELSE kout.kind = "thrown" /\ kout.variants = <<>>

\* the smaller of two sizes
Min(a, b) == IF a <= b THEN a ELSE b

\* the small-crop predicate of the size rule
SmallBySizeRule(width, height) == Min(width, height) < 500 \/ height < 200

\* C25: for every image size the adaptive variant is binarized with bias 10
\* if min(width, height) < 500 or height < 200 and with 5 otherwise, and the
\* contrast variant with the threshold 140 under the same condition and 150
\* otherwise.
C25_BiasBySizeRule ==
    (kpc = "done" /\ kfun = "preprocessImage" /\ kout.kind = "returned") =>
        /\ kout.variants[1].parameter =
                (IF SmallBySizeRule(ksize.width, ksize.height) THEN 10 ELSE 5)
        /\ kout.variants[2].parameter =
                (IF SmallBySizeRule(ksize.width, ksize.height) THEN 140 ELSE 150)

\* the rule the code has: width < 500 or height < 200; and the two
\* parameters always go together
BiasByWidthRule ==
    (kpc = "done" /\ kfun = "preprocessImage" /\ kout.kind = "returned") =>
        /\ kout.variants[1].parameter =
                (IF ksize.width < 500 \/ ksize.height < 200 THEN 10 ELSE 5)
        /\ kout.variants[2].parameter = 150 - 2 * (kout.variants[1].parameter - 5)

(***************************************************************************)
(* Properties of the wait for the decoded image, checked under SpecDecode  *)
(***************************************************************************)
\* the image did not decode
DecodeFailed == devent = "error" \/ dsource.broken

\* C24: the wait for the decoded image always ends, for an IMG element that
\* is not complete and for a URL or data URI, whether the image loads or the
\* decode fails; and a decode that failed gives an error result.
C24_DecodeNeverBlocks ==
    /\ [](dpc = "done" /\ DecodeFailed => dresult.kind = "error")
    /\ (dpc = "waiting") ~> (dpc = "done")

\* a decode that failed and was waited for to the end gives an error result
DecodeFailureGivesError ==
    (dpc = "done" /\ DecodeFailed) => dresult.kind = "error"

\* the wait ends whenever the image loads
LoadEndsTheWait == (devent = "load") ~> (dpc = "done")

\* the wait for a URL in enhanced-ocr.js always ends
EnhancedUrlWaitEnds ==
    (dpc = "waiting" /\ dimpl = "enhanced" /\ dsource.tagName = "URL") ~> (dpc = "done")

\* a call stays in its wait exactly after an error event no handler took
StuckOnlyWithoutOnError ==
    (dpc = "waiting" /\ devent # "none") =>
        (devent = "error" /\ "onerror" \notin dhandlers)

(***************************************************************************)
(* The passes of preprocessImage over the pixels (SpecThreshold)           *)
(***************************************************************************)
\* the adaptive-threshold variant the input buffer alone determines: each
\* pixel against the local mean of the input
AdaptiveOfInput(input, size) ==
    [i \in DOMAIN input |-> AdaptiveValue(input, size.width, size.height, i)]

\* the contrast variants of the input buffer, one for each rounding
ContrastsOfInput(input, size) ==
    {ContrastOf(input, size.width, size.height, up) : up \in BOOLEAN}

\* C26: once both passes are over, the adaptive-threshold variant is the
\* one computed pixel by pixel from the input buffer (a pixel is black
\* exactly when its input luminance is below the local mean of the input
\* minus the bias), and the contrast variant is computed from the
\* unmodified copy of the input.
C26_AdaptiveIsFunctionOfInput ==
    bpc = "done" =>
        /\ pixels = AdaptiveOfInput(origData, bsize)
        /\ dataCopy \in ContrastsOfInput(origData, bsize)

\* The contrast half of C26 holds: the contrast variant is computed from
\* the clone, which no pass writes.
ContrastFromUnmodifiedCopy ==
    bpc = "done" => dataCopy \in ContrastsOfInput(origData, bsize)

\* The clone is never written.
CloneNeverWritten == [][bpc # "idle" => origData' = origData]_vars

\* The first pixel is thresholded against the mean of the input; the pixels
\* before the one the pass is at are already binarized in the buffer from
\* which the next mean is read.
FirstPixelFromInput ==
    /\ (bpc # "idle" /\ bpos > 1) =>
            pixels[1] = AdaptiveValue(origData, bsize.width, bsize.height, 1)
    /\ bpc # "idle" =>
            \A i \in DOMAIN pixels :
                IF i < bpos THEN pixels[i] \in {0, 255}
                ELSE pixels[i] = origData[i]

\* A buffer of one pixel has no earlier pixel: its variant is that of the
\* input.
OnePixelIsFunctionOfInput ==
    (bpc = "done" /\ Len(origData) = 1) =>
        pixels = AdaptiveOfInput(origData, bsize)

(***************************************************************************)
(* The appending rule of combineOcrResults (SpecUnion)                     *)
(***************************************************************************)
\* the base: the longest text
UnionBase == LongestText(fuseInput, "", 0)

\* the distinct lowercased words of more than two characters, first seen
\* first
UnionTokens == AllWords(fuseInput, <<>>)

\* the text with every token appended that the longest text does not hold
RECURSIVE UnionAgainstBase(_, _, _)
UnionAgainstBase(base, text, tokens) ==
    IF tokens = <<>> THEN text
    ELSE UnionAgainstBase(base,
            IF Includes(ToLowerCase(base), Head(tokens)) THEN text
            ELSE text \o " " \o Head(tokens),
            Tail(tokens))

\* the text with every token appended that the text built so far, the base
\* and the tokens appended before, does not hold
RECURSIVE UnionSoFar(_, _)
UnionSoFar(text, tokens) ==
    IF tokens = <<>> THEN text
    ELSE UnionSoFar(IF Includes(ToLowerCase(text), Head(tokens)) THEN text
                    ELSE text \o " " \o Head(tokens),
                    Tail(tokens))

\* C27 as stated: the returned text is the base followed by every distinct
\* lowercased token of more than two characters that is not a
\* case-insensitive substring of the base (the longest text), each once,
\* space-separated, in first-seen order.
C27_AppendsTokensMissingFromBase ==
    fpc = "done" => fused = UnionAgainstBase(UnionBase, UnionBase, UnionTokens)

\* C27 amended: the returned text is the base followed by every distinct
\* lowercased token of more than two characters that is not a
\* case-insensitive substring of the text built so far (the base and the
\* tokens appended before it), each once, space-separated, in first-seen
\* order; no token of one or two characters is among them.
C27_AppendsTokensMissingSoFar ==
    fpc = "done" =>
        /\ fused = UnionSoFar(UnionBase, UnionTokens)
        /\ \A i \in 1..Len(UnionTokens) :
            /\ Len(UnionTokens[i]) > 2
            /\ UnionTokens[i] = ToLowerCase(UnionTokens[i])
            /\ \A j \in 1..Len(UnionTokens) : UnionTokens[i] = UnionTokens[j] => i = j
        /\ \A i \in 1..Len(fuseInput) :
            \A w \in Range(SplitWhitespace(fuseInput[i].text)) :
                Len(w) > 2 => ToLowerCase(w) \in Range(UnionTokens)

\* a token was appended and a later one, held by the appended one and not
\* by the base, was not
C27_Witness ==
    /\ fpc = "done"
    /\ fused # UnionBase
    /\ fused # UnionAgainstBase(UnionBase, UnionBase, UnionTokens)

\* Every token is a case-insensitive substring of the returned text, and
\* the returned text begins with the base.
UnionHoldsEveryToken ==
    fpc = "done" =>
        /\ StartsWith(fused, UnionBase)
        /\ \A w \in Range(UnionTokens) : Includes(ToLowerCase(fused), w)

(***************************************************************************)
(* One successful pass in enhanceAndRecognizeText (SpecPipeline)           *)
(***************************************************************************)
\* enhanceAndRecognizeText has come to its normalisation with the result
\* of exactly one pass
OnePassSucceeded ==
    pc = "done" /\ variant = "enhanced" /\ Len(results) = 1

\* C28: when exactly one recognition pass of enhanceAndRecognizeText
\* succeeds, the text handed to the normalisation is that pass's text
\* unchanged, whatever confidence in 0..100 the pass reports, 0 included: a
\* recognized text that is not empty is never replaced by the empty string.
C28_SinglePassTextUnchanged ==
    OnePassSucceeded => combinedText = results[1].text

\* With a confidence above 0 the text of the only pass is handed over
\* unchanged.
SinglePassTextUnchangedAboveZero ==
    (OnePassSucceeded /\ results[1].confidence > 0) =>
        combinedText = results[1].text

\* With confidence 0 the empty string is handed over, whatever was
\* recognized.
SinglePassTextLostAtZero ==
    (OnePassSucceeded /\ results[1].confidence = 0) => combinedText = ""

(***************************************************************************)
(* analyzeIngredientsForSafety applied again to its own result (SpecSafety) *)
(***************************************************************************)
\* the record has been through a call, and then through another: upstream
\* is the result of the call before the last
AnalyzedAgain == spc = "analyzed" /\ calls >= 2

\* C29: analyzeIngredientsForSafety is idempotent: applied to its own
\* result it leaves is_gluten_free and the message as they are (the
\* cross-contamination suffix is not appended a second time), on the
\* Unsafe, Caution and Clear paths alike.
C29_AnalysisIdempotent ==
    AnalyzedAgain =>
        /\ data.is_gluten_free = upstream.is_gluten_free
        /\ data.message = upstream.message

\* The verdict is idempotent on every path, and flagged_ingredients is
\* never written.
VerdictIdempotent ==
    AnalyzedAgain =>
        /\ data.is_gluten_free = upstream.is_gluten_free
        /\ data.flagged_ingredients = upstream.flagged_ingredients

\* On the Unsafe and Caution paths the message is assigned anew by each
\* call: the second call changes nothing.
IdempotentWhenFlagged ==
    (AnalyzedAgain /\ Len(upstream.flagged_ingredients.items) > 0) =>
        data = upstream

\* On the Clear path the second call changes the record exactly when the
\* verdict is gluten free, by appending the suffix once more.
ClearPathAppendsAgain ==
    (AnalyzedAgain /\ Len(upstream.flagged_ingredients.items) = 0) =>
        data.message =
            IF upstream.is_gluten_free
            THEN upstream.message \o CrossContaminationSuffix
            ELSE upstream.message

(***************************************************************************)
(* The region of the density analysis (SpecRegion)                         *)
(***************************************************************************)
\* the greatest density of the profile, and the rows (as indices of
\* rowDensity) where the density drops below three tenths of it
Densest == MaxDensity(rowDensity)
DropsAt == {i \in 1..Len(rowDensity) : 10 * rowDensity[i] < 3 * Densest.maxDensity}

\* C30: the density analysis returns a region of non-negative height that
\* lies inside the image, for every row-density profile: startRow <=
\* endRow, y >= 0 and y + height <= the height of the image, also when the
\* density drops within 5 rows above or below the densest row and when the
\* image has no dark pixel.
C30_RegionInsideImage ==
    gpc = "done" =>
        /\ bbox.startRow <= bbox.endRow
        /\ bbox.height >= 0
        /\ bbox.y >= 0
        /\ bbox.y + bbox.height <= gheight

\* With no dark pixel from startY on, the region is the empty one at
\* startY.
NoDarkPixelGivesEmptyRegion ==
    (gpc = "done" /\ Densest.maxDensity = 0) =>
        /\ bbox.startRow = StartY(gheight)
        /\ bbox.endRow = StartY(gheight)
        /\ bbox.height = 0

\* With no drop of the density the region is the empty one at the densest
\* row.
NoDropGivesDensestRow ==
    (gpc = "done" /\ DropsAt = {}) =>
        /\ bbox.startRow = StartY(gheight) + Densest.index - 1
        /\ bbox.endRow = bbox.startRow

\* With no drop above the densest row and none within 5 rows below it, the
\* region is inside the image and its height is not negative.
RegionInsideWhenDropsAreFar ==
    (gpc = "done" /\ \A i \in DropsAt : i >= Densest.index + 5) =>
        /\ bbox.startRow <= bbox.endRow
        /\ bbox.y >= 0
        /\ bbox.y + bbox.height <= gheight

\* The top of the region is never above startY, and its bottom, y + height,
\* is never below the image.
RegionTopAndBottom ==
    gpc = "done" =>
        /\ bbox.y >= StartY(gheight)
        /\ bbox.y + bbox.height < gheight

\* A drop in the row above the densest row (row startY is not looked at)
\* puts startRow 4 rows below the densest row, and so below the image when
\* that row is among the last 4.
StartRowMayLeaveImage ==
    (gpc = "done" /\ Densest.index > 2 /\ Densest.index - 1 \in DropsAt) =>
        bbox.startRow = StartY(gheight) + Densest.index + 3

====
